---- MODULE Spec2Model ----
(***************************************************************************)
(* Product feed validator: feed normalisation (utils/parse.py, app.py),    *)
(* the modular rule engine (validators/) and the monolithic rule engine    *)
(* with its aggregation script (app.py).                                   *)
(*                                                                         *)
(* Python values are tagged records, strings are sequences of one-letter   *)
(* strings, so that parsing is computed letter by letter as the code does. *)
(***************************************************************************)
EXTENDS Integers, Sequences, FiniteSets, TLC

VARIABLES
    \* --- one record under both rule engines (SpecRules)
    p,              \* the record handed to the rule engines
    modular,        \* outcome of validators.run_all_validations(p), or NoOutcome
    mono,           \* outcome of app.validate_product(p), or NoOutcome
    \* --- the wall clock, read by datetime.now() (SpecRules, SpecRun)
    clock,
    \* --- the app.py script run (SpecRun)
    products,       \* list returned by load_feed
    prod_results,   \* list of per-record results, appended in the loop
    total_errors,
    total_warnings,
    issue_counts,   \* insertion-ordered dict message -> count
    df_issues,      \* the sorted issue table
    pc,             \* position of the script
    runStart,       \* clock value when the script started validating
    \* --- extract_products_from_json (SpecExtract)
    impl,           \* which copy of the function runs: "app" or "utils"
    obj,            \* the decoded JSON root
    queue,          \* BFS queue of paths into obj
    seen,           \* set of id() values already visited
    visited,        \* paths popped and examined so far, in order
    ret,            \* the returned list
    epc,            \* position inside the function
    \* --- the script around the loop: upload and report (SpecLoad)
    uploaded,       \* the uploaded file: its name and what it holds
    banner,         \* the st.error / st.warning / st.success line shown
    reports         \* the field table of each record

vars == <<p, modular, mono, clock, products, prod_results, total_errors,
          total_warnings, issue_counts, df_issues, pc, runStart,
          impl, obj, queue, seen, visited, ret, epc,
          uploaded, banner, reports>>

rulesVars == <<p, modular, mono>>
runVars == <<products, prod_results, total_errors, total_warnings,
             issue_counts, df_issues, pc, runStart>>
extractVars == <<impl, obj, queue, seen, visited, ret, epc>>
loadVars == <<uploaded, banner, reports>>

-----------------------------------------------------------------------------
(* Python values *)

None == [t |-> "none", s |-> <<>>, n |-> 0, items |-> <<>>, kv |-> <<>>]
Str(chars) == [t |-> "str", s |-> chars, n |-> 0, items |-> <<>>, kv |-> <<>>]
Num(i) == [t |-> "num", s |-> <<>>, n |-> i, items |-> <<>>, kv |-> <<>>]
Bool(b) == [t |-> "bool", s |-> <<>>, n |-> IF b THEN 1 ELSE 0, items |-> <<>>, kv |-> <<>>]
List(xs) == [t |-> "list", s |-> <<>>, n |-> 0, items |-> xs, kv |-> <<>>]
Dict(pairs) == [t |-> "dict", s |-> <<>>, n |-> 0, items |-> <<>>, kv |-> pairs]

IsNone(v) == v.t = "none"
IsStr(v) == v.t = "str"
IsList(v) == v.t = "list"
IsDict(v) == v.t = "dict"

\* bool(v)
Truthy(v) ==
    CASE v.t = "none" -> FALSE
      [] v.t = "str" -> v.s # <<>>
      [] v.t = "num" -> v.n # 0
      [] v.t = "bool" -> v.n = 1
      [] v.t = "list" -> v.items # <<>>
      [] v.t = "dict" -> v.kv # <<>>

\* v in (None, "")
InNoneEmpty(v) == v.t = "none" \/ (v.t = "str" /\ v.s = <<>>)

\* v == "<chars>" for a string literal
EqStr(v, chars) == v.t = "str" /\ v.s = chars

-----------------------------------------------------------------------------
(* Field names.  A key is its lower-case spelling and the casing it is     *)
(* written in; str.lower() maps every casing to the lower-case one.        *)

Key(name) == [name |-> name, form |-> "lower"]
KeyUpper(name) == [name |-> name, form |-> "upper"]
KeyTitle(name) == [name |-> name, form |-> "title"]

lower_key(k) == [k EXCEPT !.form = "lower"]

Min(S) == CHOOSE x \in S : \A y \in S : x <= y
Max(S) == CHOOSE x \in S : \A y \in S : y <= x

\* F applied to the value v: the body of F names v as often as it likes
Bind(v, F(_)) == F(v)

FirstOf(d, hits) == IF hits = {} THEN None ELSE d.kv[Min(hits)][2]

\* dict.get(key): exact key match
dict_get(d, name) == FirstOf(d, {i \in 1..Len(d.kv) : d.kv[i][1] = Key(name)})

\* key in d
dict_has(d, name) == \E i \in 1..Len(d.kv) : d.kv[i][1] = Key(name)

\* app.safe_get: first key in iteration order equal to the name ignoring case
safe_get(d, name) ==
    FirstOf(d, {i \in 1..Len(d.kv) : lower_key(d.kv[i][1]) = lower_key(Key(name))})

-----------------------------------------------------------------------------
(* Text: a string is a sequence of one-letter strings *)

DigitSeq == <<"0", "1", "2", "3", "4", "5", "6", "7", "8", "9">>
UpperSeq == <<"A", "B", "C", "D", "E", "F", "G", "H", "I", "J", "K", "L", "M",
              "N", "O", "P", "Q", "R", "S", "T", "U", "V", "W", "X", "Y", "Z">>
LowerSeq == <<"a", "b", "c", "d", "e", "f", "g", "h", "i", "j", "k", "l", "m",
              "n", "o", "p", "q", "r", "s", "t", "u", "v", "w", "x", "y", "z">>

Range(f) == {f[i] : i \in DOMAIN f}
IsDigit(c) == c \in Range(DigitSeq)
IsUpper(c) == c \in Range(UpperSeq)
IsLower(c) == c \in Range(LowerSeq)
IsSpace(c) == c \in {" ", "\t", "\n"}

IndexIn(seq, c) == CHOOSE i \in DOMAIN seq : seq[i] = c
DigitVal(c) == IndexIn(DigitSeq, c) - 1
lower_char(c) == IF IsUpper(c) THEN LowerSeq[IndexIn(UpperSeq, c)] ELSE c
upper_char(c) == IF IsLower(c) THEN UpperSeq[IndexIn(LowerSeq, c)] ELSE c
\* str.lower()
lower(s) == [i \in DOMAIN s |-> lower_char(s[i])]

Drop(s, k) == SubSeq(s, k + 1, Len(s))
Take(s, k) == SubSeq(s, 1, k)
StartsWith(s, pre) == Len(s) >= Len(pre) /\ Take(s, Len(pre)) = pre
AllIn(s, Test(_)) == \A i \in DOMAIN s : Test(s[i])
\* position of the first letter of s satisfying Test, or Len(s) + 1
FirstPos(s, Test(_)) == Min({i \in DOMAIN s : Test(s[i])} \cup {Len(s) + 1})
\* position of the last letter of s satisfying Test, or 0
LastPos(s, Test(_)) == Max({i \in DOMAIN s : Test(s[i])} \cup {0})

NotSpace(c) == ~IsSpace(c)
\* str.strip()
strip(s) == SubSeq(s, FirstPos(s, NotSpace), LastPos(s, NotSpace))

RECURSIVE split(_, _)
\* str.split(sep) for a one-letter separator: empty pieces are kept
split(s, sep) ==
    Bind(FirstPos(s, LAMBDA c : c = sep), LAMBDA i :
        IF i > Len(s) THEN <<s>>
        ELSE <<Take(s, i - 1)>> \o split(Drop(s, i), sep))

RECURSIVE split_ws(_)
\* str.split(): pieces between runs of white space, no empty piece
split_ws(s) ==
    Bind(Drop(s, FirstPos(s, NotSpace) - 1), LAMBDA t :
    Bind(FirstPos(t, IsSpace), LAMBDA e :
        IF t = <<>> THEN <<>>
        ELSE <<Take(t, e - 1)>> \o split_ws(Drop(t, e - 1))))

RECURSIVE Join(_, _)
\* sep.join(pieces)
Join(pieces, sep) ==
    IF pieces = <<>> THEN <<>>
    ELSE IF Len(pieces) = 1 THEN pieces[1]
    ELSE pieces[1] \o sep \o Join(Tail(pieces), sep)

RECURSIVE NatChars(_)
NatChars(k) ==
    IF k < 10 THEN <<DigitSeq[k + 1]>>
    ELSE NatChars(k \div 10) \o <<DigitSeq[(k % 10) + 1]>>
\* str(i) for an int
IntChars(i) == IF i < 0 THEN <<"-">> \o NatChars(-i) ELSE NatChars(i)

RECURSIVE DigitsVal(_)
\* value of a non-empty run of digits
DigitsVal(s) ==
    IF Len(s) = 1 THEN DigitVal(s[1])
    ELSE 10 * DigitsVal(Take(s, Len(s) - 1)) + DigitVal(s[Len(s)])

\* the letters of a field name
name_text(name) ==
    CASE name = "id" -> <<"i", "d">>
      [] name = "country" -> <<"c", "o", "u", "n", "t", "r", "y">>
      [] name = "value" -> <<"v", "a", "l", "u", "e">>
      [] name = "a" -> <<"a">>
      [] name = "b" -> <<"b">>
      [] name = "c" -> <<"c">>
      [] name = "region" -> <<"r", "e", "g", "i", "o", "n">>
      [] name = "gtin" -> <<"g", "t", "i", "n">>
      [] name = "mpn" -> <<"m", "p", "n">>
      [] name = "category" -> <<"c", "a", "t", "e", "g", "o", "r", "y">>
      [] name = "title" -> <<"t", "i", "t", "l", "e">>
      [] name = "description" -> <<"d", "e", "s", "c", "r", "i", "p", "t", "i", "o", "n">>
      [] name = "link" -> <<"l", "i", "n", "k">>
      [] name = "image_link" -> <<"i", "m", "a", "g", "e", "_", "l", "i", "n", "k">>
      [] name = "additional_image_link" -> <<"a", "d", "d", "i", "t", "i", "o", "n", "a", "l", "_", "i", "m", "a", "g", "e", "_", "l", "i", "n", "k">>
      [] name = "price" -> <<"p", "r", "i", "c", "e">>
      [] name = "sale_price" -> <<"s", "a", "l", "e", "_", "p", "r", "i", "c", "e">>
      [] name = "sale_price_effective_date" -> <<"s", "a", "l", "e", "_", "p", "r", "i", "c", "e", "_", "e", "f", "f", "e", "c", "t", "i", "v", "e", "_", "d", "a", "t", "e">>
      [] name = "unit_pricing_measure" -> <<"u", "n", "i", "t", "_", "p", "r", "i", "c", "i", "n", "g", "_", "m", "e", "a", "s", "u", "r", "e">>
      [] name = "pricing_trend" -> <<"p", "r", "i", "c", "i", "n", "g", "_", "t", "r", "e", "n", "d">>
      [] name = "availability" -> <<"a", "v", "a", "i", "l", "a", "b", "i", "l", "i", "t", "y">>
      [] name = "availability_date" -> <<"a", "v", "a", "i", "l", "a", "b", "i", "l", "i", "t", "y", "_", "d", "a", "t", "e">>
      [] name = "inventory_quantity" -> <<"i", "n", "v", "e", "n", "t", "o", "r", "y", "_", "q", "u", "a", "n", "t", "i", "t", "y">>
      [] name = "expiration_date" -> <<"e", "x", "p", "i", "r", "a", "t", "i", "o", "n", "_", "d", "a", "t", "e">>
      [] name = "condition" -> <<"c", "o", "n", "d", "i", "t", "i", "o", "n">>
      [] name = "product_category" -> <<"p", "r", "o", "d", "u", "c", "t", "_", "c", "a", "t", "e", "g", "o", "r", "y">>
      [] name = "brand" -> <<"b", "r", "a", "n", "d">>
      [] name = "material" -> <<"m", "a", "t", "e", "r", "i", "a", "l">>
      [] name = "dimensions" -> <<"d", "i", "m", "e", "n", "s", "i", "o", "n", "s">>
      [] name = "length" -> <<"l", "e", "n", "g", "t", "h">>
      [] name = "width" -> <<"w", "i", "d", "t", "h">>
      [] name = "height" -> <<"h", "e", "i", "g", "h", "t">>
      [] name = "weight" -> <<"w", "e", "i", "g", "h", "t">>
      [] name = "item_group_id" -> <<"i", "t", "e", "m", "_", "g", "r", "o", "u", "p", "_", "i", "d">>
      [] name = "item_group_title" -> <<"i", "t", "e", "m", "_", "g", "r", "o", "u", "p", "_", "t", "i", "t", "l", "e">>
      [] name = "color" -> <<"c", "o", "l", "o", "r">>
      [] name = "size" -> <<"s", "i", "z", "e">>
      [] name = "size_system" -> <<"s", "i", "z", "e", "_", "s", "y", "s", "t", "e", "m">>
      [] name = "gender" -> <<"g", "e", "n", "d", "e", "r">>
      [] name = "offer_id" -> <<"o", "f", "f", "e", "r", "_", "i", "d">>
      [] name = "custom_variant1_category" -> <<"c", "u", "s", "t", "o", "m", "_", "v", "a", "r", "i", "a", "n", "t", "1", "_", "c", "a", "t", "e", "g", "o", "r", "y">>
      [] name = "custom_variant1_option" -> <<"c", "u", "s", "t", "o", "m", "_", "v", "a", "r", "i", "a", "n", "t", "1", "_", "o", "p", "t", "i", "o", "n">>
      [] name = "custom_variant2_category" -> <<"c", "u", "s", "t", "o", "m", "_", "v", "a", "r", "i", "a", "n", "t", "2", "_", "c", "a", "t", "e", "g", "o", "r", "y">>
      [] name = "custom_variant2_option" -> <<"c", "u", "s", "t", "o", "m", "_", "v", "a", "r", "i", "a", "n", "t", "2", "_", "o", "p", "t", "i", "o", "n">>
      [] name = "shipping" -> <<"s", "h", "i", "p", "p", "i", "n", "g">>
      [] name = "shipping_weight" -> <<"s", "h", "i", "p", "p", "i", "n", "g", "_", "w", "e", "i", "g", "h", "t">>
      [] name = "shipping_label" -> <<"s", "h", "i", "p", "p", "i", "n", "g", "_", "l", "a", "b", "e", "l">>
      [] name = "tax" -> <<"t", "a", "x">>
      [] name = "seller_name" -> <<"s", "e", "l", "l", "e", "r", "_", "n", "a", "m", "e">>
      [] name = "seller_tos" -> <<"s", "e", "l", "l", "e", "r", "_", "t", "o", "s">>
      [] name = "seller_privacy_policy" -> <<"s", "e", "l", "l", "e", "r", "_", "p", "r", "i", "v", "a", "c", "y", "_", "p", "o", "l", "i", "c", "y">>
      [] name = "enable_search" -> <<"e", "n", "a", "b", "l", "e", "_", "s", "e", "a", "r", "c", "h">>
      [] name = "enable_checkout" -> <<"e", "n", "a", "b", "l", "e", "_", "c", "h", "e", "c", "k", "o", "u", "t">>
      [] name = "geo_availability" -> <<"g", "e", "o", "_", "a", "v", "a", "i", "l", "a", "b", "i", "l", "i", "t", "y">>
      [] name = "geo_price" -> <<"g", "e", "o", "_", "p", "r", "i", "c", "e">>
      [] name = "language" -> <<"l", "a", "n", "g", "u", "a", "g", "e">>
      [] name = "updated_at" -> <<"u", "p", "d", "a", "t", "e", "d", "_", "a", "t">>
      [] name = "created_at" -> <<"c", "r", "e", "a", "t", "e", "d", "_", "a", "t">>
      [] name = "video_link" -> <<"v", "i", "d", "e", "o", "_", "l", "i", "n", "k">>
      [] name = "model_3d_link" -> <<"m", "o", "d", "e", "l", "_", "3", "d", "_", "l", "i", "n", "k">>
      [] name = "raw_review_data" -> <<"r", "a", "w", "_", "r", "e", "v", "i", "e", "w", "_", "d", "a", "t", "a">>
      [] name = "q_and_a" -> <<"q", "_", "a", "n", "d", "_", "a">>
      [] name = "schema_org_json_ld" -> <<"s", "c", "h", "e", "m", "a", "_", "o", "r", "g", "_", "j", "s", "o", "n", "_", "l", "d">>
      [] name = "metadata" -> <<"m", "e", "t", "a", "d", "a", "t", "a">>

key_text(k) ==
    Bind(name_text(k.name), LAMBDA low :
        CASE k.form = "lower" -> low
          [] k.form = "upper" -> [i \in DOMAIN low |-> upper_char(low[i])]
          [] k.form = "title" ->
               [i \in DOMAIN low |-> IF i = 1 THEN upper_char(low[i]) ELSE low[i]])

RECURSIVE repr(_)
RECURSIVE repr_items(_)
RECURSIVE repr_pairs(_)
repr_items(xs) == [i \in DOMAIN xs |-> repr(xs[i])]
repr_pairs(kv) ==
    [i \in DOMAIN kv |-> <<"'">> \o key_text(kv[i][1]) \o <<"'", ":", " ">> \o repr(kv[i][2])]
\* repr(v), for strings holding no quote or backslash
repr(v) ==
    CASE v.t = "none" -> <<"N", "o", "n", "e">>
      [] v.t = "str" -> <<"'">> \o v.s \o <<"'">>
      [] v.t = "num" -> IntChars(v.n)
      [] v.t = "bool" -> IF v.n = 1 THEN <<"T", "r", "u", "e">>
                         ELSE <<"F", "a", "l", "s", "e">>
      [] v.t = "list" -> <<"[">> \o Join(repr_items(v.items), <<",", " ">>) \o <<"]">>
      [] v.t = "dict" -> <<"{">> \o Join(repr_pairs(v.kv), <<",", " ">>) \o <<"}">>

\* str(v)
str(v) == IF v.t = "str" THEN v.s ELSE repr(v)

-----------------------------------------------------------------------------
(* Scalar parsers *)

\* urllib.parse.urlparse(u): the scheme (lower-cased) and the netloc.  The
\* strings of the model hold no bracket, tab or newline, so the IPv6 and
\* control-letter branches of urlsplit are not taken.
IsSchemeChar(c) == IsLower(c) \/ IsUpper(c) \/ IsDigit(c) \/ c \in {"+", "-", "."}
IsNetlocEnd(c) == c \in {"/", "?", "#"}
\* the netloc of what follows the scheme
netloc_of(rest) ==
    IF StartsWith(rest, <<"/", "/">>)
    THEN Bind(Drop(rest, 2), LAMBDA after : Take(after, FirstPos(after, IsNetlocEnd) - 1))
    ELSE <<>>
urlparse(u) ==
    Bind(Drop(u, FirstPos(u, NotSpace) - 1), LAMBDA url :
    Bind(FirstPos(url, LAMBDA c : c = ":"), LAMBDA i :
        IF /\ i <= Len(url)
           /\ i > 1
           /\ (IsLower(url[1]) \/ IsUpper(url[1]))
           /\ AllIn(Take(url, i - 1), IsSchemeChar)
        THEN [scheme |-> lower(Take(url, i - 1)), netloc |-> netloc_of(Drop(url, i))]
        ELSE [scheme |-> <<>>, netloc |-> netloc_of(url)]))

HTTP == <<"h", "t", "t", "p">>
HTTPS == <<"h", "t", "t", "p", "s">>

\* utils.rules.is_url / app.is_url
is_url(v) ==
    IF ~Truthy(v) THEN FALSE
    ELSE Bind(urlparse(str(v)), LAMBDA u : u.scheme \in {HTTP, HTTPS} /\ u.netloc # <<>>)

\* --- dates.  An instant is <<year, month, day, hour, minute, second>>.
NoDate == [ok |-> FALSE, aware |-> FALSE, at |-> <<0, 0, 0, 0, 0, 0>>]
Date(aware, at) == [ok |-> TRUE, aware |-> aware, at |-> at]

RECURSIVE LexLess(_, _)
LexLess(a, b) ==
    IF a = <<>> THEN FALSE
    ELSE IF a[1] # b[1] THEN a[1] < b[1]
    ELSE LexLess(Tail(a), Tail(b))
LexLeq(a, b) == a = b \/ LexLess(a, b)

IsLeap(y) == (y % 4 = 0 /\ y % 100 # 0) \/ y % 400 = 0
DaysIn(y, m) ==
    IF m = 2 THEN (IF IsLeap(y) THEN 29 ELSE 28)
    ELSE IF m \in {4, 6, 9, 11} THEN 30 ELSE 31

DigitsAt(s, from, to) ==
    /\ to <= Len(s)
    /\ \A i \in from..to : IsDigit(s[i])
NumAt(s, from, to) == DigitsVal(SubSeq(s, from, to))

\* YYYY-MM-DD at the head of s
DateHead(s) ==
    /\ Len(s) >= 10
    /\ DigitsAt(s, 1, 4) /\ s[5] = "-" /\ DigitsAt(s, 6, 7) /\ s[8] = "-"
    /\ DigitsAt(s, 9, 10)
    /\ NumAt(s, 1, 4) >= 1
    /\ NumAt(s, 6, 7) \in 1..12
    /\ NumAt(s, 9, 10) \in 1..DaysIn(NumAt(s, 1, 4), NumAt(s, 6, 7))
\* THH:MM:SS at letters 11..19 of s
TimePart(s) ==
    /\ Len(s) >= 19
    /\ s[11] \in {"T", " "}
    /\ DigitsAt(s, 12, 13) /\ s[14] = ":" /\ DigitsAt(s, 15, 16) /\ s[17] = ":"
    /\ DigitsAt(s, 18, 19)
    /\ NumAt(s, 12, 13) \in 0..23
    /\ NumAt(s, 15, 16) \in 0..59
    /\ NumAt(s, 18, 19) \in 0..59
UTC_OFFSET == <<"+", "0", "0", ":", "0", "0">>

\* datetime.fromisoformat(s), else datetime.strptime(s, "%Y-%m-%d"), for the
\* three spellings the model's feeds use: YYYY-MM-DD, YYYY-MM-DDTHH:MM:SS
\* (both naive) and YYYY-MM-DDTHH:MM:SS+00:00 (aware).  Every other string of
\* the model's feeds is rejected by both library calls.
parse_iso_date(s) ==
    IF ~DateHead(s) THEN NoDate
    ELSE IF Len(s) = 10
    THEN Date(FALSE, <<NumAt(s, 1, 4), NumAt(s, 6, 7), NumAt(s, 9, 10), 0, 0, 0>>)
    ELSE IF ~TimePart(s) \/ (Len(s) # 19 /\ Drop(s, 19) # UTC_OFFSET) THEN NoDate
    ELSE Date(Len(s) # 19, <<NumAt(s, 1, 4), NumAt(s, 6, 7), NumAt(s, 9, 10),
                             NumAt(s, 12, 13), NumAt(s, 15, 16), NumAt(s, 18, 19)>>)

\* utils.rules.is_iso8601_date / app.is_iso8601_date, called with str(x)
is_iso8601_date(s) == s # <<>> /\ parse_iso_date(s).ok

\* --- numbers.  An amount is mantissa m over 10^d (a decimal numeral).
NoAmount == [ok |-> FALSE, m |-> 0, d |-> 0]
Amount(m, d) == [ok |-> TRUE, m |-> m, d |-> d]

RECURSIVE Pow10(_)
Pow10(k) == IF k = 0 THEN 1 ELSE 10 * Pow10(k - 1)
AmountLess(a, b) == a.m * Pow10(b.d) < b.m * Pow10(a.d)
AmountGt(a, b) == AmountLess(b, a)
AmountNeg(a) == a.m < 0

\* float(s) for a string s written with digits, a sign and a point only
\* (the model's feeds hold no exponent, underscore, "inf" or "nan" numeral)
float_body(neg, body) ==
    Bind(FirstPos(body, LAMBDA c : c = "."), LAMBDA dot :
    Bind(Take(body, dot - 1), LAMBDA whole :
    Bind(Drop(body, dot), LAMBDA frac :
        IF ~(AllIn(whole, IsDigit) /\ AllIn(frac, IsDigit) /\ whole \o frac # <<>>)
        THEN NoAmount
        ELSE Bind(DigitsVal(<<"0">> \o whole \o frac), LAMBDA mag :
                 Amount(IF neg THEN -mag ELSE mag, Len(frac))))))
float_str(s0) ==
    Bind(strip(s0), LAMBDA s :
        IF s # <<>> /\ s[1] \in {"+", "-"} THEN float_body(s[1] = "-", Tail(s))
        ELSE float_body(FALSE, s))

\* float(v); NoAmount stands for the ValueError or TypeError
float(v) ==
    CASE v.t = "str" -> float_str(v.s)
      [] v.t \in {"num", "bool"} -> Amount(v.n, 0)
      [] OTHER -> NoAmount

\* int(v); ok = FALSE stands for the ValueError or TypeError
int(v) ==
    CASE v.t = "str" ->
            IF \E i \in DOMAIN v.s : v.s[i] = "." THEN NoAmount ELSE float_str(v.s)
      [] v.t \in {"num", "bool"} -> Amount(v.n, 0)
      [] OTHER -> NoAmount

\* app.is_positive_integer_str
is_positive_integer_str(v) == Bind(int(v), LAMBDA i : i.ok /\ i.m >= 0)

\* str.isdigit() for the model's letters
isdigit(s) == s # <<>> /\ AllIn(s, IsDigit)

-----------------------------------------------------------------------------
(* Price parsing *)

NoPrice == [val |-> NoAmount, cur |-> None]

NotDigit(c) == ~IsDigit(c)
\* re.match(r"^\s*([0-9]+(?:\.[0-9]+)?)\s*([A-Z]{3})?\s*$", s):
\* [hit, val (group 1 as float), cur (group 2)]
price_regex(s) ==
    Bind(Drop(s, FirstPos(s, NotSpace) - 1), LAMBDA t :
    Bind(FirstPos(t, NotDigit) - 1, LAMBDA nWhole :
    Bind(Drop(t, nWhole), LAMBDA afterWhole :
    Bind(IF afterWhole # <<>> /\ afterWhole[1] = "."
         THEN Take(Tail(afterWhole), FirstPos(Tail(afterWhole), NotDigit) - 1)
         ELSE <<>>, LAMBDA fracRun :
    Bind(IF fracRun = <<>> THEN afterWhole ELSE Drop(afterWhole, 1 + Len(fracRun)), LAMBDA afterNum :
    Bind(Drop(afterNum, FirstPos(afterNum, NotSpace) - 1), LAMBDA rest :
        IF nWhole >= 1 /\ rest = <<>>
        THEN [hit |-> TRUE, cur |-> None,
              val |-> Amount(DigitsVal(Take(t, nWhole) \o fracRun), Len(fracRun))]
        ELSE IF /\ nWhole >= 1 /\ Len(rest) >= 3
                /\ AllIn(Take(rest, 3), IsUpper) /\ AllIn(Drop(rest, 3), IsSpace)
        THEN [hit |-> TRUE, cur |-> Str(Take(rest, 3)),
              val |-> Amount(DigitsVal(Take(t, nWhole) \o fracRun), Len(fracRun))]
        ELSE [hit |-> FALSE, cur |-> None, val |-> NoAmount]))))))

\* json.loads(s) gives a mapping with a "value" key only if s holds a double
\* quote; the model's feeds hold none, so the structured tier never matches.
json_value_tier(s) == [hit |-> FALSE, val |-> NoAmount, cur |-> None]

IsCurrencyCode(tok) == Len(tok) = 3 /\ AllIn(tok, IsUpper)

\* the fallback tier of validators.pricing.parse_price
token_tier(parts) ==
    IF parts = <<>> THEN NoPrice
    ELSE Bind(float_str(parts[1]), LAMBDA f :
             IF ~f.ok THEN NoPrice
             ELSE [val |-> f, cur |-> IF Len(parts) > 1 THEN Str(parts[2]) ELSE None])

\* the fallback tier of app.extract_price_and_currency
token_tier_app(parts) ==
    IF parts = <<>> THEN NoPrice
    ELSE Bind(float_str(parts[1]), LAMBDA f :
             IF ~f.ok THEN NoPrice
             ELSE [val |-> f, cur |-> IF Len(parts) > 1 /\ IsCurrencyCode(parts[2])
                                      THEN Str(parts[2]) ELSE None])

\* validators.pricing.parse_price
parse_price(value) ==
    IF IsNone(value) THEN NoPrice
    ELSE Bind(strip(str(value)), LAMBDA s :
         Bind(price_regex(s), LAMBDA m :
         Bind(json_value_tier(s), LAMBDA j :
            IF m.hit THEN [val |-> m.val, cur |-> m.cur]
            ELSE IF j.hit THEN [val |-> j.val, cur |-> j.cur]
            ELSE token_tier(split_ws(s)))))

\* app.extract_price_and_currency
extract_price_and_currency(value) ==
    IF IsNone(value) THEN NoPrice
    ELSE Bind(strip(str(value)), LAMBDA s :
         Bind(price_regex(s), LAMBDA m :
         Bind(json_value_tier(s), LAMBDA j :
            IF m.hit THEN [val |-> m.val, cur |-> m.cur]
            ELSE IF j.hit THEN [val |-> j.val, cur |-> j.cur]
            ELSE token_tier_app(split_ws(s)))))

-----------------------------------------------------------------------------
(* Rule modules of validators/: each returns (errors, warnings, rows), or   *)
(* raises.  A message is its text and, for an f-string, the inserted text.  *)

Msg(text) == [text |-> text, arg |-> <<>>]
MsgArg(text, arg) == [text |-> text, arg |-> arg]
Row(field, value) == [Field |-> field, Value |-> value]
When(cond, m) == IF cond THEN <<m>> ELSE <<>>
Returned(e, w, r) == [raised |-> FALSE, errors |-> e, warnings |-> w, rows |-> r]
Raised == [raised |-> TRUE, errors |-> <<>>, warnings |-> <<>>, rows |-> <<>>]

\* a or b
Or(a, b) == IF Truthy(a) THEN a ELSE b
\* v in (<string literals>)
InStrs(v, strs) == v.t = "str" /\ v.s \in strs

IdMaxLen == 100
MpnMaxLen == 70
TitleMaxLen == 150
DescMaxLen == 5000
BrandMaxLen == 70
GtinMinLen == 8
GtinMaxLen == 14

\* re.match(r'^[0-9]{8,14}$', s)
gtin_regex(s) == Len(s) >= GtinMinLen /\ Len(s) <= GtinMaxLen /\ AllIn(s, IsDigit)

\* validators/flags.py
validate_flags(rec) ==
    LET es == dict_get(rec, "enable_search")
        ec == dict_get(rec, "enable_checkout")
        w == When(IsNone(es), Msg("enable_search recommended but not present; must be lower-case string true/false"))
             \o When(IsNone(ec), Msg("enable_checkout recommended but not present; must be lower-case string true/false"))
        e == When(Truthy(ec) /\ ~Truthy(es), Msg("enable_checkout cannot be true when enable_search is not true"))
    IN Returned(e, w, <<Row("enable_search", es), Row("enable_checkout", ec)>>)

\* validators/basic.py
validate_basic(rec) ==
    LET idv == dict_get(rec, "id")
        gtin == dict_get(rec, "gtin")
        mpn == dict_get(rec, "mpn")
        title == dict_get(rec, "title")
        desc == dict_get(rec, "description")
        link == dict_get(rec, "link")
        e == When(InNoneEmpty(idv), Msg("Missing required field: id"))
             \o When(~Truthy(gtin) /\ ~Truthy(mpn), Msg("Either 'gtin' or 'mpn' must be present"))
             \o When(~Truthy(title), Msg("Missing required field: title"))
             \o (IF ~Truthy(desc) THEN <<Msg("Missing required field: description")>>
                 ELSE When(Len(str(desc)) > DescMaxLen, Msg("description exceeds 5000 chars")))
             \o (IF ~Truthy(link) THEN <<Msg("Missing required field: link")>>
                 ELSE When(~is_url(link), Msg("link must be valid http(s) URL")))
        w == When(~InNoneEmpty(idv) /\ Len(str(idv)) > IdMaxLen, Msg("id exceeds 100 chars"))
             \o (IF ~Truthy(gtin) THEN <<Msg("gtin recommended")>>
                 ELSE When(~gtin_regex(str(gtin)), Msg("gtin should be 8-14 digits")))
             \o When(Truthy(mpn) /\ Len(str(mpn)) > MpnMaxLen, Msg("mpn exceeds 70 chars"))
             \o When(Truthy(title) /\ Len(str(title)) > TitleMaxLen, Msg("title exceeds 150 chars"))
    IN Returned(e, w, <<Row("id", idv), Row("gtin", gtin), Row("mpn", mpn),
                        Row("title", title), Row("description", desc), Row("link", link)>>)

S_new == <<"n", "e", "w">>
S_refurbished == <<"r", "e", "f", "u", "r", "b", "i", "s", "h", "e", "d">>
S_used == <<"u", "s", "e", "d">>
S_newborn == <<"n", "e", "w", "b", "o", "r", "n">>
S_infant == <<"i", "n", "f", "a", "n", "t">>
S_toddler == <<"t", "o", "d", "d", "l", "e", "r">>
S_kids == <<"k", "i", "d", "s">>
S_adult == <<"a", "d", "u", "l", "t">>

\* validators/item_info.py
validate_item_info(rec) ==
    LET condition == dict_get(rec, "condition")
        cat == Or(Or(dict_get(rec, "product_category"), dict_get(rec, "category")),
                  dict_get(rec, "google_product_category"))
        brand == dict_get(rec, "brand")
        mat == dict_get(rec, "material")
        weight == Or(dict_get(rec, "weight"), dict_get(rec, "shipping_weight"))
        age == dict_get(rec, "age_group")
        w == When(Truthy(condition) /\ ~InStrs(condition, {S_new, S_refurbished, S_used}),
                  Msg("condition should be new/refurbished/used"))
             \o When(~Truthy(cat), Msg("product_category recommended"))
             \o (IF ~Truthy(brand) THEN <<Msg("brand recommended")>>
                 ELSE When(Len(str(brand)) > BrandMaxLen, Msg("brand exceeds 70 chars")))
             \o When(~Truthy(mat), Msg("material recommended"))
             \o When(~Truthy(weight), Msg("weight recommended"))
             \o When(Truthy(age) /\ ~InStrs(age, {S_newborn, S_infant, S_toddler, S_kids, S_adult}),
                     Msg("age_group should be one of newborn, infant, toddler, kids, adult"))
    IN Returned(<<>>, w, <<Row("condition", condition), Row("product_category", cat),
                           Row("brand", brand), Row("material", mat),
                           Row("weight", weight), Row("age_group", age)>>)

\* [x.strip() for x in s.split(',') if x.strip()]
comma_entries(s) ==
    Bind(split(s, ","), LAMBDA pieces :
        SelectSeq([i \in DOMAIN pieces |-> strip(pieces[i])], LAMBDA x : x # <<>>))

StrsOf(pieces) == [i \in DOMAIN pieces |-> Str(pieces[i])]
HasComma(v) == IsStr(v) /\ \E i \in DOMAIN v.s : v.s[i] = ","

\* the list validate_media walks for additional_image_link
media_entries(add) ==
    IF HasComma(add) THEN StrsOf(comma_entries(add.s))
    ELSE IF IsList(add) THEN add.items
    ELSE <<add>>

\* validators/media.py
validate_media(rec) ==
    LET img == dict_get(rec, "image_link")
        add == dict_get(rec, "additional_image_link")
        video == dict_get(rec, "video_link")
        model3 == dict_get(rec, "model_3d_link")
        e == IF ~Truthy(img) THEN <<Msg("Missing required field: image_link")>>
             ELSE When(~is_url(img), Msg("image_link must be a valid URL"))
        w == When(Truthy(add) /\ Bind(media_entries(add), LAMBDA arr : \E i \in DOMAIN arr : ~is_url(arr[i])),
                  Msg("additional_image_link contains invalid URL"))
             \o When(Truthy(video) /\ ~is_url(video), Msg("video_link not valid URL"))
             \o When(Truthy(model3) /\ ~is_url(model3), Msg("model_3d_link not valid URL"))
    IN Returned(e, w, <<Row("image_link", img), Row("additional_image_link", add),
                        Row("video_link", video), Row("model_3d_link", model3)>>)

LStrip(x) == Drop(x, FirstPos(x, NotSpace) - 1)
RStrip(x) == Take(x, LastPos(x, NotSpace))
\* re.split(r"\s*/\s*", s): the pieces between slashes, the white space
\* around each slash removed with it
slash_range(s) ==
    Bind(split(s, "/"), LAMBDA pieces :
        [i \in DOMAIN pieces |->
            Bind(IF i > 1 THEN LStrip(pieces[i]) ELSE pieces[i], LAMBDA a :
                IF i < Len(pieces) THEN RStrip(a) ELSE a)])

\* the sale_price errors of validate_pricing, pp and sp the parsed prices
sale_errors(sale, pp, sp) ==
    IF ~Truthy(sale) THEN <<>>
    ELSE IF ~sp.val.ok THEN <<Msg("sale_price present but not parseable")>>
    ELSE When(pp.val.ok /\ AmountGt(sp.val, pp.val), Msg("sale_price must be <= price"))

\* the sale_price_effective_date errors of validate_pricing
sale_range_errors(parts) ==
    IF Len(parts) # 2 THEN <<Msg("sale_price_effective_date must be range start/end")>>
    ELSE When(~is_iso8601_date(parts[1]) \/ ~is_iso8601_date(parts[2]),
              Msg("sale_price_effective_date dates must be ISO 8601"))

\* validators/pricing.py validate_pricing
validate_pricing(rec) ==
    Bind(dict_get(rec, "price"), LAMBDA price :
    Bind(parse_price(price), LAMBDA pp :
    Bind(dict_get(rec, "sale_price"), LAMBDA sale :
    Bind(dict_get(rec, "sale_price_effective_date"), LAMBDA sale_eff :
    Bind(dict_get(rec, "unit_pricing_measure"), LAMBDA upm :
        Returned(
            (IF ~pp.val.ok THEN <<Msg("Missing or invalid required field: price")>>
             ELSE When(AmountNeg(pp.val), Msg("price must be non-negative"))
                  \o When(~Truthy(pp.cur), Msg("price must include ISO 4217 currency code per spec")))
            \o sale_errors(sale, pp, parse_price(sale))
            \o (IF ~(Truthy(sale) /\ Truthy(sale_eff)) THEN <<>>
                ELSE sale_range_errors(slash_range(str(sale_eff)))),
            When(Truthy(upm) /\ ~IsStr(upm), Msg("unit_pricing_measure should be string like \"16 oz / 1 oz\"")),
            <<Row("price", price), Row("sale_price", sale),
              Row("sale_price_effective_date", sale_eff),
              Row("unit_pricing_measure", upm)>>))))))

S_in_stock == <<"i", "n", "_", "s", "t", "o", "c", "k">>
S_out_of_stock == <<"o", "u", "t", "_", "o", "f", "_", "s", "t", "o", "c", "k">>
S_preorder == <<"p", "r", "e", "o", "r", "d", "e", "r">>

\* validators/availability.py
validate_availability(rec) ==
    LET availability == dict_get(rec, "availability")
        ad == dict_get(rec, "availability_date")
        inv == dict_get(rec, "inventory_quantity")
        exp == dict_get(rec, "expiration_date")
        e == (IF ~Truthy(availability) THEN <<Msg("Missing required field: availability")>>
              ELSE When(~InStrs(availability, {S_in_stock, S_out_of_stock, S_preorder}),
                        Msg("availability must be one of in_stock, out_of_stock, preorder")))
             \o (IF ~EqStr(availability, S_preorder) THEN <<>>
                 ELSE IF ~Truthy(ad) THEN <<Msg("availability_date required for preorder")>>
                 ELSE When(~is_iso8601_date(str(ad)), Msg("availability_date must be ISO 8601")))
             \o When(IsNone(inv) \/ ~isdigit(str(inv)),
                     Msg("inventory_quantity must be a non-negative integer"))
        w == When(Truthy(exp) /\ ~is_iso8601_date(str(exp)), Msg("expiration_date should be ISO 8601"))
    IN Returned(e, w, <<Row("availability", availability), Row("inventory_quantity", inv),
                        Row("expiration_date", exp)>>)

ColorMaxLen == 40
SizeMaxLen == 20

\* validators/variants.py
validate_variants(rec) ==
    LET item_group == dict_get(rec, "item_group_id")
        color == dict_get(rec, "color")
        size == dict_get(rec, "size")
        variant_fields == \E f \in {"color", "size", "offer_id"} : Truthy(dict_get(rec, f))
        e == When(variant_fields /\ ~Truthy(item_group), Msg("item_group_id required when variants exist"))
        w == When(Truthy(color) /\ Len(str(color)) > ColorMaxLen, Msg("color exceeds 40 chars"))
             \o When(Truthy(size) /\ Len(str(size)) > SizeMaxLen, Msg("size exceeds 20 chars"))
    IN Returned(e, w, <<Row("item_group_id", item_group), Row("color", color), Row("size", size)>>)

ShippingParts == 4

\* the entries of a shipping value: the list itself, or the stripped
\* non-empty comma pieces of str(shipping)
shipping_entries(shipping) ==
    IF IsList(shipping) THEN shipping.items
    ELSE StrsOf(comma_entries(str(shipping)))

\* the warnings of the shipping loop of validators/fulfillment.py
short_entry_warnings(entries) ==
    Bind(SelectSeq(entries, LAMBDA x : Len(split(x.s, ":")) < ShippingParts), LAMBDA short :
        [i \in DOMAIN short |->
            MsgArg("shipping entry '{s}' expected 'country:region:service_class:price'", short[i].s)])

\* validators/fulfillment.py: s.split(':') raises AttributeError on an entry
\* that is no string
validate_fulfillment(rec) ==
    Bind(dict_get(rec, "shipping"), LAMBDA shipping :
    Bind(IF Truthy(shipping) THEN shipping_entries(shipping) ELSE <<>>, LAMBDA entries :
    Bind(dict_get(rec, "delivery_estimate"), LAMBDA de :
        IF \E i \in DOMAIN entries : ~IsStr(entries[i]) THEN Raised
        ELSE Returned(<<>>,
                      short_entry_warnings(entries)
                      \o When(Truthy(de) /\ ~is_iso8601_date(str(de)),
                              Msg("delivery_estimate should be ISO 8601 date")),
                      <<Row("shipping", shipping), Row("delivery_estimate", de)>>))))

\* validators/merchant.py
validate_merchant(rec) ==
    LET seller == dict_get(rec, "seller_name")
        seller_url == dict_get(rec, "seller_url")
        w == When(~Truthy(seller), Msg("seller_name recommended"))
             \o When(Truthy(seller_url) /\ ~is_url(seller_url), Msg("seller_url should be a valid URL"))
    IN Returned(<<>>, w, <<Row("seller_name", seller), Row("seller_url", seller_url)>>)

\* the message for a value that must be a positive int, if it is not
positive_int_check(v, notInt, notPositive) ==
    Bind(int(v), LAMBDA i :
        IF ~i.ok THEN <<notInt>> ELSE When(i.m <= 0, notPositive))

\* validators/returns.py
validate_returns(rec) ==
    LET rp == dict_get(rec, "return_policy")
        rwin == dict_get(rec, "return_window")
        w == When(Truthy(rp) /\ ~IsStr(rp), Msg("return_policy should be a URL string"))
        e == IF ~Truthy(rwin) THEN <<>>
             ELSE positive_int_check(rwin, Msg("return_window must be an integer representing days"),
                                     Msg("return_window must be a positive integer"))
    IN Returned(e, w, <<Row("return_policy", rp), Row("return_window", rwin)>>)

PercentMax == 100
RatingMax == 5

\* str.strip('%')
strip_percent(s) ==
    LET NotPct(c) == c # "%"
    IN SubSeq(s, FirstPos(s, NotPct), LastPos(s, NotPct))

\* the message for a number that must lie in 0..top, if it does not
range_check(v, top, notNumeric, outOfRange) ==
    IF ~v.ok THEN <<notNumeric>>
    ELSE When(AmountNeg(v) \/ AmountGt(v, Amount(top, 0)), outOfRange)

\* validators/performance.py
validate_performance(rec) ==
    LET pop == dict_get(rec, "popularity_score")
        rr == dict_get(rec, "return_rate")
        w == When(~IsNone(pop) /\ ~float(pop).ok, Msg("popularity_score should be numeric"))
             \o (IF IsNone(rr) THEN <<>>
                 ELSE range_check(IF IsStr(rr) THEN float_str(strip_percent(rr.s)) ELSE float(rr),
                                  PercentMax,
                                  Msg("return_rate should be numeric or percent string"),
                                  Msg("return_rate should be 0-100%")))
    IN Returned(<<>>, w, <<Row("popularity_score", pop), Row("return_rate", rr)>>)

\* validators/compliance.py
validate_compliance(rec) ==
    LET warning_text == dict_get(rec, "warning")
        warning_url == dict_get(rec, "warning_url")
        age == dict_get(rec, "age_restriction")
        w == When(Truthy(warning_url) /\ ~is_url(warning_url), Msg("warning_url should be a valid URL"))
             \o (IF ~Truthy(age) THEN <<>>
                 ELSE positive_int_check(age, Msg("age_restriction should be integer"),
                                         Msg("age_restriction should be positive integer")))
    IN Returned(<<>>, w, <<Row("warning", warning_text), Row("warning_url", warning_url),
                           Row("age_restriction", age)>>)

\* the product_review_count warning
review_count_check(prc) ==
    Bind(int(prc), LAMBDA i :
        IF ~i.ok THEN <<Msg("product_review_count should be integer")>>
        ELSE When(i.m < 0, Msg("product_review_count must be non-negative")))

\* validators/reviews.py
validate_reviews(rec) ==
    LET prc == dict_get(rec, "product_review_count")
        prr == dict_get(rec, "product_review_rating")
        w == (IF IsNone(prc) THEN <<>> ELSE review_count_check(prc))
             \o (IF IsNone(prr) THEN <<>>
                 ELSE range_check(float(prr), RatingMax,
                                  Msg("product_review_rating should be numeric"),
                                  Msg("product_review_rating should be between 0 and 5")))
    IN Returned(<<>>, w, <<Row("product_review_count", prc), Row("product_review_rating", prr),
                           Row("q_and_a", dict_get(rec, "q_and_a")),
                           Row("raw_review_data", dict_get(rec, "raw_review_data"))>>)

S_part_of_set == <<"p", "a", "r", "t", "_", "o", "f", "_", "s", "e", "t">>
S_required_part == <<"r", "e", "q", "u", "i", "r", "e", "d", "_", "p", "a", "r", "t">>
S_often_bought_with == <<"o", "f", "t", "e", "n", "_", "b", "o", "u", "g", "h", "t", "_", "w", "i", "t", "h">>
S_substitute == <<"s", "u", "b", "s", "t", "i", "t", "u", "t", "e">>
S_different_brand == <<"d", "i", "f", "f", "e", "r", "e", "n", "t", "_", "b", "r", "a", "n", "d">>
S_accessory == <<"a", "c", "c", "e", "s", "s", "o", "r", "y">>

\* validators/related.py
validate_related(rec) ==
    LET rel == dict_get(rec, "related_product_id")
        rt == dict_get(rec, "relationship_type")
        w == When(Truthy(rt) /\ ~InStrs(rt, {S_part_of_set, S_required_part, S_often_bought_with,
                                             S_substitute, S_different_brand, S_accessory}),
                  Msg("relationship_type value unexpected"))
    IN Returned(<<>>, w, <<Row("related_product_id", rel), Row("relationship_type", rt)>>)

IsAlpha(c) == IsLower(c) \/ IsUpper(c)

\* validators/geo.py
validate_geo(rec) ==
    LET gp == dict_get(rec, "geo_price")
        ga == dict_get(rec, "geo_availability")
        w == When(Truthy(gp) /\ AllIn(str(gp), LAMBDA c : ~IsAlpha(c)),
                  Msg("geo_price expected to include currency code or region note"))
             \o When(Truthy(ga) /\ ~IsStr(ga), Msg("geo_availability should be string like \"US:in_stock\""))
    IN Returned(<<>>, w, <<Row("geo_price", gp), Row("geo_availability", ga)>>)

-----------------------------------------------------------------------------
(* validators/__init__.py: the orchestrator *)

NumModules == 15

\* the module list with the flag rules moved to the end
module_out_flags_last(k, rec) ==
    CASE k = 1 -> validate_basic(rec)
      [] k = 2 -> validate_item_info(rec)
      [] k = 3 -> validate_media(rec)
      [] k = 4 -> validate_pricing(rec)
      [] k = 5 -> validate_availability(rec)
      [] k = 6 -> validate_variants(rec)
      [] k = 7 -> validate_fulfillment(rec)
      [] k = 8 -> validate_merchant(rec)
      [] k = 9 -> validate_returns(rec)
      [] k = 10 -> validate_performance(rec)
      [] k = 11 -> validate_compliance(rec)
      [] k = 12 -> validate_reviews(rec)
      [] k = 13 -> validate_related(rec)
      [] k = 14 -> validate_geo(rec)
      [] k = 15 -> validate_flags(rec)

\* the module list of run_all_validations, in its order
module_out(k, rec) ==
    CASE k = 1 -> validate_flags(rec)
      [] k = 2 -> validate_basic(rec)
      [] k = 3 -> validate_item_info(rec)
      [] k = 4 -> validate_media(rec)
      [] k = 5 -> validate_pricing(rec)
      [] k = 6 -> validate_availability(rec)
      [] k = 7 -> validate_variants(rec)
      [] k = 8 -> validate_fulfillment(rec)
      [] k = 9 -> validate_merchant(rec)
      [] k = 10 -> validate_returns(rec)
      [] k = 11 -> validate_performance(rec)
      [] k = 12 -> validate_compliance(rec)
      [] k = 13 -> validate_reviews(rec)
      [] k = 14 -> validate_related(rec)
      [] k = 15 -> validate_geo(rec)

RECURSIVE Flatten(_)
Flatten(seqs) == IF seqs = <<>> THEN <<>> ELSE Head(seqs) \o Flatten(Tail(seqs))

\* the for loop over the modules, outs[k] what module k gives when called and
\* stop the first module that raises (NumModules + 1 if none does): an
\* exception leaves the loop and the function, else the lists are extended in
\* module order
run_modules(outs, stop) ==
    IF stop <= NumModules
    THEN [raised |-> TRUE, errors |-> <<>>, warnings |-> <<>>, infos |-> <<>>,
          rows |-> <<>>, ran |-> [k \in 1..(stop - 1) |-> k]]
    ELSE [raised |-> FALSE,
          errors |-> Flatten([k \in 1..NumModules |-> outs[k].errors]),
          warnings |-> Flatten([k \in 1..NumModules |-> outs[k].warnings]),
          infos |-> <<>>,
          rows |-> Flatten([k \in 1..NumModules |-> outs[k].rows]),
          ran |-> [k \in 1..NumModules |-> k]]

\* run_all_validations(p); ran lists the modules whose output was added
run_all_validations(rec) ==
    Bind([k \in 1..NumModules |-> module_out(k, rec)], LAMBDA outs :
        run_modules(outs, Min({k \in 1..NumModules : outs[k].raised} \cup {NumModules + 1})))

-----------------------------------------------------------------------------
(* app.py: the monolithic rule engine *)

\* one pass over a list of URLs: one message at the first that is no URL
first_bad_url(urls, m) == When(\E i \in DOMAIN urls : ~is_url(urls[i]), m)

\* a required URL field (link, image_link): lines 207-226
app_url_errors(v, missing, invalid) ==
    IF InNoneEmpty(v) THEN <<missing>> ELSE When(~is_url(v), invalid)
app_url_warnings(v, preferHttps) ==
    When(~InNoneEmpty(v) /\ is_url(v) /\ ~StartsWith(lower(str(v)), HTTPS), preferHttps)

\* a faulty price rule that accepts a price without a currency code
app_price_errors_no_currency(price) ==
    IF ~price.val.ok
    THEN <<Msg("Missing or invalid required field: price (expected 'number CUR', e.g., '79.99 USD')")>>
    ELSE When(AmountNeg(price.val), Msg("price must be a non-negative number"))

\* lines 229-238, price the parsed price
app_price_errors(price) ==
    IF ~price.val.ok
    THEN <<Msg("Missing or invalid required field: price (expected 'number CUR', e.g., '79.99 USD')")>>
    ELSE When(AmountNeg(price.val), Msg("price must be a non-negative number"))
         \o When(~Truthy(price.cur), Msg("price must include an ISO 4217 currency code (e.g., USD) per spec"))

\* lines 264-275, dt the parsed availability_date: [raises, errors]
app_preorder(availability, avail_date, dt, now) ==
    IF str(availability) # S_preorder THEN [raises |-> FALSE, errors |-> <<>>]
    ELSE IF ~Truthy(avail_date)
    THEN [raises |-> FALSE, errors |-> <<Msg("availability_date is required when availability='preorder'")>>]
    ELSE IF ~is_iso8601_date(str(avail_date))
    THEN [raises |-> FALSE, errors |-> <<Msg("availability_date must be a valid ISO 8601 date")>>]
    ELSE IF ~dt.ok THEN [raises |-> FALSE, errors |-> <<>>]
    ELSE IF ~dt.aware THEN [raises |-> TRUE, errors |-> <<>>]
    ELSE [raises |-> FALSE,
          errors |-> When(LexLeq(dt.at, now), Msg("availability_date must be a future date for preorder items"))]

\* lines 277-282
app_variant_errors(rec) ==
    When(/\ \E f \in {"color", "size", "item_group_title", "offer_id"} : ~InNoneEmpty(safe_get(rec, f))
         /\ ~Truthy(safe_get(rec, "item_group_id")),
         Msg("item_group_id is required when variant rows are present (e.g., color/size/offer_id)"))

\* lines 288-293, price and sale the parsed prices
app_sale_errors(price, sale) ==
    IF ~sale.val.ok THEN <<Msg("sale_price provided but not parseable as number + optional currency")>>
    ELSE When(price.val.ok /\ AmountGt(sale.val, price.val),
              Msg("sale_price must be less than or equal to price"))

\* lines 301-306, the two parsed dates: [raises, errors]
app_range_dates(s_dt, e_dt) ==
    IF ~s_dt.ok \/ ~e_dt.ok
    THEN [raises |-> FALSE, errors |-> <<Msg("sale_price_effective_date start or end not valid ISO date")>>]
    ELSE IF s_dt.aware # e_dt.aware THEN [raises |-> TRUE, errors |-> <<>>]
    ELSE [raises |-> FALSE,
          errors |-> When(~LexLess(s_dt.at, e_dt.at), Msg("sale_price_effective_date start must be before end"))]

\* lines 294-306: [raises, errors]
app_sale_range(sale_eff, parts) ==
    IF ~Truthy(sale_eff) THEN [raises |-> FALSE, errors |-> <<>>]
    ELSE IF Len(parts) # 2
    THEN [raises |-> FALSE,
          errors |-> <<Msg("sale_price_effective_date must be a start/end ISO date range 'YYYY-MM-DD / YYYY-MM-DD'")>>]
    ELSE app_range_dates(parse_iso_date(parts[1]), parse_iso_date(parts[2]))

\* lines 334-342, toks = str(weight).split()
app_weight_warnings(weight, toks) ==
    IF ~Truthy(weight) THEN <<Msg("weight (or shipping_weight) is recommended (positive number + unit).")>>
    ELSE When(toks = <<>> \/ ~float_str(toks[1]).ok, Msg("weight provided but could not parse numeric part"))

\* lines 345-361
app_additional_image_warnings(v) ==
    IF ~Truthy(v) THEN <<>>
    ELSE IF HasComma(v)
    THEN first_bad_url(StrsOf(comma_entries(v.s)), Msg("additional_image_link contains non-URL entries"))
    ELSE IF IsList(v) THEN first_bad_url(v.items, Msg("additional_image_link contains non-URL entries"))
    ELSE When(~is_url(Str(str(v))), Msg("additional_image_link is present but not a valid URL or list"))

\* [s.strip() for s in v.split(",")]
comma_pieces(s) == Bind(split(s, ","), LAMBDA pieces : [i \in DOMAIN pieces |-> strip(pieces[i])])

\* lines 364-378
app_video_warnings(v) ==
    IF ~Truthy(v) THEN <<>>
    ELSE IF HasComma(v)
    THEN first_bad_url(StrsOf(comma_pieces(v.s)), Msg("video_link contains invalid URL"))
    ELSE IF IsList(v) THEN first_bad_url(v.items, Msg("video_link contains invalid URL"))
    ELSE When(~is_url(Str(str(v))), Msg("video_link is not a valid URL"))

\* lines 390-398, one entry s, parts = s.split(":")
app_shipping_entry(sv, parts) ==
    IF Len(parts) < ShippingParts
    THEN <<MsgArg("shipping entry '{s}' expected 'country:region:service_class:price'", sv)>>
    ELSE When(~extract_price_and_currency(Str(parts[4])).val.ok,
              MsgArg("shipping entry price not parseable in '{s}'", sv))

\* lines 386-398: [raises, warnings]
app_shipping(entries) ==
    IF \E i \in DOMAIN entries : ~IsStr(entries[i]) THEN [raises |-> TRUE, warnings |-> <<>>]
    ELSE [raises |-> FALSE,
          warnings |-> Flatten([i \in DOMAIN entries |->
                                   app_shipping_entry(entries[i].s, split(entries[i].s, ":"))])]

\* the errors of validate_product in the order they are appended
app_errors(rec, price, sale_price, preorder, range) ==
    LET desc == safe_get(rec, "description")
        availability == safe_get(rec, "availability")
        inv == safe_get(rec, "inventory_quantity")
    IN When(InNoneEmpty(safe_get(rec, "id")), Msg("Missing required field: id"))
       \o When(InNoneEmpty(safe_get(rec, "title")), Msg("Missing required field: title"))
       \o (IF InNoneEmpty(desc) THEN <<Msg("Missing required field: description")>>
           ELSE When(Len(str(desc)) > DescMaxLen, Msg("description exceeds max length 5000 characters")))
       \o app_url_errors(safe_get(rec, "link"), Msg("Missing required field: link"),
                         Msg("link must be a valid http(s) URL"))
       \o app_url_errors(safe_get(rec, "image_link"), Msg("Missing required field: image_link"),
                         Msg("image_link must be a valid http(s) URL"))
       \o app_price_errors(price)
       \o (IF InNoneEmpty(availability) THEN <<Msg("Missing required field: availability")>>
           ELSE When(str(availability) \notin {S_in_stock, S_out_of_stock, S_preorder},
                     Msg("availability must be one of 'in_stock', 'out_of_stock', 'preorder'")))
       \o (IF InNoneEmpty(inv) THEN <<Msg("Missing required field: inventory_quantity")>>
           ELSE When(~is_positive_integer_str(inv), Msg("inventory_quantity must be a non-negative integer")))
       \o When(InNoneEmpty(safe_get(rec, "gtin")) /\ InNoneEmpty(safe_get(rec, "mpn")),
               Msg("Either 'gtin' (recommended) or 'mpn' (required if gtin missing) must be provided"))
       \o preorder.errors
       \o app_variant_errors(rec)
       \o (IF InNoneEmpty(sale_price) THEN <<>>
           ELSE app_sale_errors(price, extract_price_and_currency(sale_price)) \o range.errors)

\* the warnings of validate_product in the order they are appended
app_warnings(rec, sale_price, sale_eff, shipping) ==
    LET prod_id == safe_get(rec, "id")
        title == safe_get(rec, "title")
        gtin == safe_get(rec, "gtin")
        condition == safe_get(rec, "condition")
        model_3d == safe_get(rec, "model_3d_link")
    IN When(~InNoneEmpty(prod_id) /\ Len(str(prod_id)) > IdMaxLen,
            Msg("id exceeds recommended max length 100 characters"))
       \o When(~InNoneEmpty(title) /\ Len(str(title)) > TitleMaxLen,
               Msg("title exceeds recommended max length 150 characters"))
       \o app_url_warnings(safe_get(rec, "link"), Msg("link should use HTTPS (preferred)"))
       \o app_url_warnings(safe_get(rec, "image_link"), Msg("image_link should use HTTPS (preferred)"))
       \o When(~InNoneEmpty(sale_price) /\ ~Truthy(sale_eff),
               Msg("sale_price provided but sale_price_effective_date is missing (recommended)"))
       \o (IF ~Truthy(gtin) THEN <<Msg("gtin is recommended (8-14 digits). If absent, mpn must be provided.")>>
           ELSE When(~gtin_regex(str(gtin)), Msg("gtin should be 8-14 digits with no spaces/dashes")))
       \o When(~Truthy(safe_get(rec, "brand")), Msg("brand is recommended for most products (max 70 chars)"))
       \o When(~Truthy(Or(Or(safe_get(rec, "product_category"), safe_get(rec, "category")),
                          safe_get(rec, "google_product_category"))),
               Msg("product_category (category) is recommended - helps classification and relevance"))
       \o When(Truthy(condition) /\ ~InStrs(condition, {S_new, S_refurbished, S_used}),
               Msg("condition should be one of 'new', 'refurbished', 'used' (lower-case)"))
       \o Bind(Or(safe_get(rec, "weight"), safe_get(rec, "shipping_weight")), LAMBDA weight :
              app_weight_warnings(weight, split_ws(str(weight))))
       \o app_additional_image_warnings(safe_get(rec, "additional_image_link"))
       \o app_video_warnings(safe_get(rec, "video_link"))
       \o When(Truthy(model_3d) /\ ~is_url(model_3d), Msg("model_3d_link provided but not a valid URL"))
       \o shipping.warnings
       \o When(~Truthy(safe_get(rec, "seller_name")), Msg("seller_name recommended (merchant display name)"))
       \o When(~Truthy(safe_get(rec, "updated_at")) /\ ~Truthy(safe_get(rec, "created_at")),
               Msg("updated_at or created_at recommended for feed freshness tracking"))

\* the outcome of validate_product from its parts
app_result(rec, price, sale_price, sale_eff, preorder, range, shipping) ==
    IF preorder.raises \/ range.raises \/ shipping.raises
    THEN [raised |-> TRUE, errors |-> <<>>, warnings |-> <<>>, infos |-> <<>>]
    ELSE [raised |-> FALSE,
          errors |-> app_errors(rec, price, sale_price, preorder, range),
          warnings |-> app_warnings(rec, sale_price, sale_eff, shipping),
          infos |-> When(Truthy(safe_get(rec, "schema_org_json_ld")),
                         Msg("schema_org_json_ld present - good for structured data"))]

\* app.validate_product(p), datetime.now(timezone.utc) returning now.
\* It raises TypeError where a naive datetime is compared with an aware one
\* (lines 274, 305) and AttributeError on a shipping entry that is no string
\* (line 391).
validate_product(rec, now) ==
    Bind(safe_get(rec, "availability_date"), LAMBDA avail_date :
    Bind(safe_get(rec, "sale_price"), LAMBDA sale_price :
    Bind(safe_get(rec, "sale_price_effective_date"), LAMBDA sale_eff :
    Bind(safe_get(rec, "shipping"), LAMBDA shipping :
        app_result(rec,
            extract_price_and_currency(safe_get(rec, "price")),
            sale_price, sale_eff,
            app_preorder(safe_get(rec, "availability"), avail_date, parse_iso_date(str(avail_date)), now),
            IF InNoneEmpty(sale_price) THEN [raises |-> FALSE, errors |-> <<>>]
            ELSE app_sale_range(sale_eff, slash_range(str(sale_eff))),
            IF Truthy(shipping) THEN app_shipping(shipping_entries(shipping))
            ELSE [raises |-> FALSE, warnings |-> <<>>])))))

-----------------------------------------------------------------------------
(* The records the rule engines are run on *)

T_100USD == <<"1", "0", "0", " ", "U", "S", "D">>
T_150USD == <<"1", "5", "0", " ", "U", "S", "D">>
T_50USD == <<"5", "0", " ", "U", "S", "D">>
T_100 == <<"1", "0", "0">>
T_neg1USD == <<"-", "1", " ", "U", "S", "D">>
T_free == <<"f", "r", "e", "e">>
T_7999 == <<"7", "9", ".", "9", "9">>
T_7999USD == <<"7", "9", ".", "9", "9", " ", "U", "S", "D">>
T_100usd == <<"1", "0", "0", " ", "u", "s", "d">>
T_100dollars == <<"1", "0", "0", " ", "d", "o", "l", "l", "a", "r", "s">>
T_neg5USD == <<"-", "5", " ", "U", "S", "D">>
T_past == <<"2", "0", "2", "6", "-", "1", "0", "-", "3", "1">>
T_future == <<"2", "0", "2", "7", "-", "1", "1", "-", "0", "1">>
T_pastAware == <<"2", "0", "2", "6", "-", "1", "0", "-", "3", "1", "T", "0", "0", ":", "0", "0", ":", "0", "0", "+", "0", "0", ":", "0", "0">>
T_soonAware == <<"2", "0", "2", "6", "-", "1", "1", "-", "0", "2", "T", "0", "0", ":", "0", "0", ":", "0", "0", "+", "0", "0", ":", "0", "0">>
T_nowAware == <<"2", "0", "2", "6", "-", "1", "1", "-", "0", "1", "T", "1", "2", ":", "0", "0", ":", "0", "0", "+", "0", "0", ":", "0", "0">>
T_futureAware == <<"2", "0", "2", "7", "-", "1", "1", "-", "0", "1", "T", "0", "0", ":", "0", "0", ":", "0", "0", "+", "0", "0", ":", "0", "0">>
T_soon == <<"s", "o", "o", "n">>
T_red == <<"r", "e", "d">>
T_M == <<"M">>
T_o1 == <<"o", "1">>
T_g1 == <<"g", "1">>
T_1 == <<"1">>
T_2 == <<"2">>
T_3 == <<"3">>
T_shirt == <<"s", "h", "i", "r", "t">>
T_url == <<"h", "t", "t", "p", "s", ":", "/", "/", "a", ".", "b", "/", "c">>
T_httpUrl == <<"h", "t", "t", "p", ":", "/", "/", "a", ".", "b">>
T_noUrl == <<"a", ".", "b">>
T_ship == <<"U", "S", ":", "C", "A", ":", "s", "t", "d", ":", "5", " ", "U", "S", "D">>
T_shipShort == <<"U", "S", ":", "5", " ", "U", "S", "D">>
T_US == <<"U", "S">>
T_gtin == <<"1", "2", "3", "4", "5", "6", "7", "8">>

Field(k, v) == << <<k, v>> >>
\* the field left out, or given one of the values
Opt(name, vals) == {<<>>} \cup {Field(Key(name), v) : v \in vals}

GoodBase ==
    << <<Key("id"), Str(T_1)>>, <<Key("title"), Str(T_shirt)>>,
       <<Key("description"), Str(T_shirt)>>, <<Key("link"), Str(T_url)>>,
       <<Key("image_link"), Str(T_httpUrl)>>, <<Key("price"), Str(T_100USD)>>,
       <<Key("availability"), Str(S_in_stock)>>, <<Key("inventory_quantity"), Num(3)>>,
       <<Key("gtin"), Str(T_gtin)>> >>
Bases == {<<>>, GoodBase}

\* the base record with the given fields put in place of its own
Overlay(base, pairs) ==
    Dict(SelectSeq(base, LAMBDA b : \A i \in DOMAIN pairs : lower_key(pairs[i][1]) # lower_key(b[1]))
         \o pairs)

PriceVals == {Str(T_100USD), Str(T_100), Str(T_neg1USD), Str(T_free), Num(0),
              Str(T_7999), Str(T_7999USD), Str(T_100usd), Str(T_100dollars)}
SaleVals == {Str(T_150USD), Str(T_50USD), Str(T_100USD), Str(T_free), Str(<<>>), Num(0),
             Str(T_neg5USD)}
PriceFamily == {a \o b : a \in Opt("price", PriceVals), b \in Opt("sale_price", SaleVals)}

DateVals == {Str(T_past), Str(T_future), Str(T_pastAware), Str(T_soonAware),
             Str(T_nowAware), Str(T_futureAware), Str(T_soon), Str(<<>>)}
AvailFamily == {a \o b : a \in Opt("availability", {Str(S_in_stock), Str(S_preorder)}),
                         b \in Opt("availability_date", DateVals)}

VariantFamily ==
    {a \o b \o c \o d \o e :
        a \in Opt("color", {Str(T_red), Str(<<>>)}), b \in Opt("size", {Str(T_M)}),
        c \in Opt("offer_id", {Str(T_o1)}), d \in Opt("item_group_title", {Str(T_shirt)}),
        e \in Opt("item_group_id", {Str(T_g1)})}

T_true == <<"t", "r", "u", "e">>
T_false == <<"f", "a", "l", "s", "e">>
FlagVals == {Bool(TRUE), Bool(FALSE), Str(T_true), Str(T_false)}
FlagFamily == {a \o b : a \in Opt("enable_search", FlagVals), b \in Opt("enable_checkout", FlagVals)}

T_range == T_past \o <<"/">> \o T_future
T_rangeSpaced == T_past \o <<" ", "/", " ">> \o T_future
T_rangeReversed == T_future \o <<"/">> \o T_past
T_rangeEqual == T_past \o <<"/">> \o T_past
T_rangeBadDate == T_soon \o <<"/">> \o T_future
T_rangeMixed == T_past \o <<"/">> \o T_futureAware
RangeVals == {Str(T_range), Str(T_rangeSpaced), Str(T_rangeReversed), Str(T_rangeEqual),
              Str(T_rangeBadDate), Str(T_rangeMixed), Str(T_past), Str(<<>>)}
SaleRangeFamily ==
    {a \o b : a \in Opt("sale_price", {Str(T_50USD)}),
              b \in Opt("sale_price_effective_date", RangeVals)}

T_urlD == <<"h", "t", "t", "p", "s", ":", "/", "/", "a", ".", "b", "/", "d">>
MediaVals ==
    {Str(T_url), Str(T_noUrl), Str(T_url \o <<",">> \o T_urlD), Str(T_url \o <<",", " ">> \o T_noUrl),
     Str(T_noUrl \o <<",">> \o T_url), List(<<Str(T_url)>>), List(<<Str(T_url), Str(T_urlD)>>),
     List(<<Str(T_url), Str(T_noUrl)>>), List(<<Str(T_noUrl), Str(T_noUrl)>>)}
MediaFields == {"additional_image_link", "video_link", "model_3d_link"}
MediaFamily == {Field(Key(f), v) : f \in MediaFields, v \in MediaVals}

CaseKeys(name) == {Key(name), KeyUpper(name), KeyTitle(name)}
CaseFamily ==
    {Field(k, Str(T_1)) : k \in CaseKeys("id") \cup CaseKeys("title") \cup CaseKeys("price")}
    \cup {Field(kk[1], v1) \o Field(kk[2], Str(T_2)) :
            kk \in {x \in CaseKeys("id") \X CaseKeys("id") : x[1] # x[2]},
            v1 \in {Str(T_1), Str(<<>>)}}

ShippingVals == {Str(T_ship), Str(T_shipShort), List(<<Str(T_ship)>>), List(<<Num(1)>>),
                 List(<<Str(T_ship), Dict(Field(Key("country"), Str(T_US)))>>),
                 Dict(Field(Key("country"), Str(T_US))), List(<<>>)}
ShapeFamily ==
    Opt("shipping", ShippingVals)
    \cup {Field(Key("id"), v) : v \in {Num(0), Bool(FALSE), List(<<>>), Dict(<<>>), List(<<Num(1)>>)}}
    \cup {Field(Key("price"), Dict(Field(Key("value"), Num(5)))),
          Field(Key("link"), Num(1)), Field(Key("return_window"), Str(T_soon)),
          Field(Key("additional_image_link"), List(<<Num(1), Str(T_url)>>))}

T_0 == <<"0">>
T_neg1 == <<"-", "1">>
T_1p5 == <<"1", ".", "5">>
ReturnWindowVals ==
    {Num(0), Num(-1), Num(3), Str(T_0), Str(T_neg1), Str(T_3), Str(T_1p5), Str(T_soon),
     Str(<<>>), List(<<Num(1)>>)}
\* one value per check of the fulfillment, merchant, returns, reviews,
\* compliance, related and geo modules
NarrowFamily ==
    {Field(Key("return_window"), v) : v \in ReturnWindowVals}
    \cup {Field(Key("return_policy"), Num(1)), Field(Key("delivery_estimate"), Str(T_soon)),
          Field(Key("seller_name"), Str(T_shirt)), Field(Key("seller_url"), Str(T_noUrl)),
          Field(Key("product_review_count"), Num(-1)), Field(Key("product_review_count"), Str(T_soon)),
          Field(Key("product_review_rating"), Num(7)), Field(Key("product_review_rating"), Str(T_soon)),
          Field(Key("warning_url"), Str(T_noUrl)),
          Field(Key("age_restriction"), Num(-1)), Field(Key("age_restriction"), Str(T_soon)),
          Field(Key("relationship_type"), Str(T_soon)), Field(Key("relationship_type"), Str(S_accessory)),
          Field(Key("geo_price"), Str(T_100)), Field(Key("geo_availability"), Num(1))}

RulePool ==
    {Overlay(b, f) : b \in Bases,
                     f \in PriceFamily \cup AvailFamily \cup VariantFamily \cup CaseFamily \cup ShapeFamily
                          \cup FlagFamily \cup SaleRangeFamily \cup MediaFamily
                          \cup NarrowFamily}

-----------------------------------------------------------------------------
(* The wall clock *)

ClockStart == <<2026, 11, 1, 12, 0, 0>>
MaxTicks == 2

\* time passes: a day
Tick ==
    /\ clock[3] < ClockStart[3] + MaxTicks
    /\ clock' = [clock EXCEPT ![3] = @ + 1]

-----------------------------------------------------------------------------
(* SpecRules: one record handed to each of the two rule engines *)

NoOutcome == [done |-> FALSE, raised |-> FALSE, errors |-> <<>>, warnings |-> <<>>,
              infos |-> <<>>, rows |-> <<>>, ran |-> <<>>, now |-> ClockStart]

\* what a caller holds after a call that returned or raised at time now
Outcome(out, now) == out @@ [done |-> TRUE, now |-> now]

IdleRun ==
    /\ products = <<>> /\ prod_results = <<>> /\ total_errors = 0 /\ total_warnings = 0
    /\ issue_counts = <<>> /\ df_issues = <<>> /\ pc = "idle"
    /\ runStart = ClockStart
IdleExtract ==
    /\ impl = "app" /\ obj = None /\ queue = <<>> /\ seen = {} /\ visited = <<>>
    /\ ret = <<>> /\ epc = "idle"
NoUpload == [name |-> <<>>, kind |-> "none", json |-> None,
             xml |-> [tag |-> [ns |-> "", name |-> ""], text |-> None, kids |-> <<>>]]
IdleLoad == uploaded = NoUpload /\ banner = "" /\ reports = <<>>
IdleRules == p = Dict(<<>>) /\ modular = NoOutcome /\ mono = NoOutcome

InitRules ==
    /\ p \in RulePool
    /\ modular = NoOutcome /\ mono = NoOutcome
    /\ clock = ClockStart
    /\ IdleRun /\ IdleExtract /\ IdleLoad

\* the caller runs validators.run_all_validations(p)
RunAllValidations ==
    /\ ~modular.done
    /\ modular' = Outcome(run_all_validations(p), clock)
    /\ UNCHANGED <<p, mono, clock>> /\ UNCHANGED runVars /\ UNCHANGED extractVars /\ UNCHANGED loadVars

\* the caller runs app.validate_product(p)
ValidateProduct ==
    /\ ~mono.done
    /\ mono' = Outcome(validate_product(p, clock) @@ [rows |-> <<>>, ran |-> <<>>], clock)
    /\ UNCHANGED <<p, modular, clock>> /\ UNCHANGED runVars /\ UNCHANGED extractVars /\ UNCHANGED loadVars

TickRules == Tick /\ UNCHANGED rulesVars /\ UNCHANGED runVars /\ UNCHANGED extractVars /\ UNCHANGED loadVars

NextRules == RunAllValidations \/ ValidateProduct \/ TickRules
SpecRules == InitRules /\ [][NextRules]_vars

-----------------------------------------------------------------------------
(* SpecRun: the app.py script from the loaded feed to the issue table *)

Without(base, name) == SelectSeq(base, LAMBDA b : b[1] # Key(name))

R_good == Dict(GoodBase)
R_noTitle == Dict(Without(GoodBase, "title"))
\* a preorder whose date lies between the start of the run and a day later
R_soon ==
    Overlay(GoodBase, Field(Key("availability"), Str(S_preorder))
                      \o Field(Key("availability_date"), Str(T_soonAware)))
R_badShipping == Overlay(GoodBase, Field(Key("shipping"), List(<<Num(1)>>)))
RunPool == {R_good, R_noTitle, R_soon, R_badShipping}

MaxFeed == 3
Feeds == UNION {[1..n -> RunPool] : n \in 1..MaxFeed}

\* the messages of the results in the order the counting loops meet them
all_messages(results) ==
    Flatten([i \in DOMAIN results |-> results[i].errors_list \o results[i].warnings_list])

\* issue_counts[m] = issue_counts.get(m, 0) + 1 on an insertion-ordered dict
count_one(counts, m) ==
    IF \E i \in DOMAIN counts : counts[i][1] = m
    THEN [i \in DOMAIN counts |-> IF counts[i][1] = m THEN <<m, counts[i][2] + 1>> ELSE counts[i]]
    ELSE Append(counts, <<m, 1>>)

RECURSIVE count_issues(_, _)
count_issues(counts, msgs) ==
    IF msgs = <<>> THEN counts ELSE count_issues(count_one(counts, Head(msgs)), Tail(msgs))

\* a faulty insertion that keeps the order of the dict: no sorting at all
insert_unsorted(sorted, x) == Append(sorted, x)

\* the place of item x in a list already sorted by key -count: after every
\* item whose count is not smaller (sorted() is stable)
insert_sorted(sorted, x) ==
    Bind(Cardinality({i \in DOMAIN sorted : sorted[i][2] >= x[2]}), LAMBDA k :
        Take(sorted, k) \o <<x>> \o Drop(sorted, k))

RECURSIVE sorted_by_count(_, _)
\* sorted(items, key=lambda x: -x[1]), acc the part sorted so far
sorted_by_count(acc, items) ==
    IF items = <<>> THEN acc ELSE sorted_by_count(insert_sorted(acc, Head(items)), Tail(items))

InitRun ==
    /\ products \in Feeds
    /\ prod_results = <<>> /\ total_errors = 0 /\ total_warnings = 0
    /\ issue_counts = <<>> /\ df_issues = <<>>
    /\ pc = "validate"
    /\ clock = ClockStart /\ runStart = ClockStart
    /\ IdleRules /\ IdleExtract /\ IdleLoad

\* one turn of the loop "for p in products" with what validate_product gave
loop_body(out) ==
    IF out.raised
    THEN /\ pc' = "crashed"
         /\ UNCHANGED <<prod_results, total_errors, total_warnings>>
    ELSE /\ prod_results' = Append(prod_results,
                [errors_list |-> out.errors, warnings_list |-> out.warnings,
                 infos_list |-> out.infos])
         /\ total_errors' = total_errors + Len(out.errors)
         /\ total_warnings' = total_warnings + Len(out.warnings)
         /\ pc' = "validate"

\* the loop validates the next record; an exception ends the script
ValidateNext ==
    /\ pc = "validate"
    /\ Len(prod_results) < Len(products)
    /\ loop_body(validate_product(products[Len(prod_results) + 1], clock))
    /\ UNCHANGED <<products, issue_counts, df_issues, runStart, clock>>
    /\ UNCHANGED rulesVars /\ UNCHANGED extractVars /\ UNCHANGED loadVars

\* after the loop: the counting loops and the sorted table
Summarize ==
    /\ pc = "validate"
    /\ Len(prod_results) = Len(products)
    /\ issue_counts' = count_issues(<<>>, all_messages(prod_results))
    /\ df_issues' = IF issue_counts' # <<>> THEN sorted_by_count(<<>>, issue_counts')
                    ELSE df_issues
    /\ pc' = "done"
    /\ UNCHANGED <<products, prod_results, total_errors, total_warnings, runStart, clock>>
    /\ UNCHANGED rulesVars /\ UNCHANGED extractVars /\ UNCHANGED loadVars

\* time passes while the script is in its loop
TickRun ==
    /\ pc = "validate"
    /\ Tick
    /\ UNCHANGED runVars /\ UNCHANGED rulesVars /\ UNCHANGED extractVars /\ UNCHANGED loadVars

NextRun == ValidateNext \/ Summarize \/ TickRun
SpecRun == InitRun /\ [][NextRun]_vars

-----------------------------------------------------------------------------
(* SpecExtract: extract_products_from_json of app.py and of utils/parse.py *)

\* the values a list iterates over, or cur.values() of a dict
children(v) ==
    IF IsList(v) THEN v.items
    ELSE IF IsDict(v) THEN [i \in DOMAIN v.kv |-> v.kv[i][2]] ELSE <<>>

RECURSIVE node_at(_, _)
\* the object reached from v by the child numbers of path
node_at(v, path) ==
    IF path = <<>> THEN v ELSE node_at(children(v)[Head(path)], Tail(path))

\* all(isinstance(i, dict) for i in xs)
all_dicts(xs) == \A i \in DOMAIN xs : IsDict(xs[i])

ReservedKeys == <<"products", "items", "feed", "entries", "data">>

\* the test a reserved key has to pass, in each copy of the function
key_applies(which, root, key) ==
    /\ dict_has(root, key)
    /\ IsList(dict_get(root, key))
    /\ which = "app" => all_dicts(dict_get(root, key).items)

\* id(cur): None, the booleans and small integers are shared objects, every
\* other object of a decoded document is its own
object_id(root, path) ==
    IF node_at(root, path).t \in {"none", "bool", "num"}
    THEN [shared |-> TRUE, value |-> node_at(root, path), at |-> <<>>]
    ELSE [shared |-> FALSE, value |-> None, at |-> path]

\* the places of the children of the object at path, in iteration order
child_paths(root, path) ==
    [i \in DOMAIN children(node_at(root, path)) |-> Append(path, i)]

\* a faulty queue: the children are put in front of the waiting objects
enqueue_front(q, kids) == kids \o q

\* queue.append(item) for each child, in order
enqueue(q, kids) == q \o kids

\* the test "cur and all(isinstance(i, dict) for i in cur)" on a list
is_feed(cur) == Truthy(cur) /\ all_dicts(cur.items)

R1 == Dict(Field(Key("id"), Str(T_1)))
R2 == Dict(Field(Key("id"), Str(T_2)))
Wrap(name, v) == Dict(Field(Key(name), v))
Pair(n1, v1, n2, v2) == Dict(Field(Key(n1), v1) \o Field(Key(n2), v2))

Leaves == {List(<<R1, R2>>), List(<<>>), List(<<Num(1), R1>>), Num(1), R1}
Sides == {List(<<>>), List(<<R2>>)}

MaxNest == 2
RECURSIVE Trees(_)
\* the documents of nesting depth up to k around a leaf
Trees(k) ==
    IF k = 0 THEN Leaves
    ELSE Leaves
         \cup {Wrap("a", x) : x \in Trees(k - 1)}
         \cup {Wrap("feed", x) : x \in Trees(k - 1)}
         \cup {Wrap("products", x) : x \in Trees(k - 1)}
         \cup {List(<<Num(1), x>>) : x \in Trees(k - 1)}
         \cup {Pair("a", y, "b", x) : x \in Trees(k - 1), y \in Sides}
         \cup {Pair("a", x, "b", y) : x \in Trees(k - 1), y \in Sides}
         \cup {Pair("feed", y, "products", x) : x \in Trees(k - 1), y \in Sides}

InitExtract ==
    /\ impl \in {"app", "utils"}
    /\ obj \in Trees(MaxNest)
    /\ queue = <<>> /\ seen = {} /\ visited = <<>> /\ ret = <<>>
    /\ epc = "start"
    /\ clock = ClockStart
    /\ IdleRules /\ IdleRun /\ IdleLoad

\* the function is entered: the two direct tests, else the search starts
Enter ==
    /\ epc = "start"
    /\ IF IsList(obj) /\ all_dicts(obj.items)
       THEN /\ ret' = obj.items /\ epc' = "returned"
            /\ UNCHANGED <<queue, seen>>
       ELSE IF IsDict(obj) /\ \E k \in DOMAIN ReservedKeys : key_applies(impl, obj, ReservedKeys[k])
       THEN /\ ret' = dict_get(obj, ReservedKeys[
                         Min({k \in DOMAIN ReservedKeys : key_applies(impl, obj, ReservedKeys[k])})]).items
            /\ epc' = "returned"
            /\ UNCHANGED <<queue, seen>>
       ELSE /\ queue' = << <<>> >> /\ seen' = {}
            /\ epc' = "bfs"
            /\ UNCHANGED ret
    /\ UNCHANGED <<impl, obj, visited, clock>>
    /\ UNCHANGED rulesVars /\ UNCHANGED runVars /\ UNCHANGED loadVars

\* one turn of "while queue", cur the object at the head of the queue
loop_turn(cur) ==
    IF object_id(obj, Head(queue)) \in seen
    THEN /\ queue' = Tail(queue)
         /\ UNCHANGED <<seen, visited, ret, epc>>
    ELSE /\ seen' = seen \cup {object_id(obj, Head(queue))}
         /\ visited' = Append(visited, Head(queue))
         /\ IF IsList(cur) /\ is_feed(cur)
            THEN /\ ret' = cur.items /\ epc' = "returned"
                 /\ queue' = Tail(queue)
            ELSE /\ queue' = enqueue(Tail(queue), child_paths(obj, Head(queue)))
                 /\ UNCHANGED <<ret, epc>>

Visit ==
    /\ epc = "bfs" /\ queue # <<>>
    /\ loop_turn(node_at(obj, Head(queue)))
    /\ UNCHANGED <<impl, obj, clock>>
    /\ UNCHANGED rulesVars /\ UNCHANGED runVars /\ UNCHANGED loadVars

\* the queue ran empty: the root alone, or nothing
Fallback ==
    /\ epc = "bfs" /\ queue = <<>>
    /\ ret' = IF IsDict(obj) THEN <<obj>> ELSE <<>>
    /\ epc' = "returned"
    /\ UNCHANGED <<impl, obj, queue, seen, visited, clock>>
    /\ UNCHANGED rulesVars /\ UNCHANGED runVars /\ UNCHANGED loadVars

NextExtract == Enter \/ Visit \/ Fallback
SpecExtract == InitExtract /\ [][NextExtract]_vars
\* a call, once made, runs on until it returns
SpecExtractFair == SpecExtract /\ WF_vars(NextExtract)

-----------------------------------------------------------------------------
(* load_feed of app.py and of utils/parse.py *)

RECURSIVE bfs(_, _, _)
\* the search loop of extract_products_from_json run to its end
bfs(root, q, sn) ==
    IF q = <<>> THEN (IF IsDict(root) THEN <<root>> ELSE <<>>)
    ELSE IF object_id(root, Head(q)) \in sn THEN bfs(root, Tail(q), sn)
    ELSE IF IsList(node_at(root, Head(q))) /\ is_feed(node_at(root, Head(q)))
    THEN node_at(root, Head(q)).items
    ELSE bfs(root, enqueue(Tail(q), child_paths(root, Head(q))), sn \cup {object_id(root, Head(q))})

\* extract_products_from_json(obj) as one call
extract_products_from_json(which, root) ==
    IF IsList(root) /\ all_dicts(root.items) THEN root.items
    ELSE IF IsDict(root) /\ \E k \in DOMAIN ReservedKeys : key_applies(which, root, ReservedKeys[k])
    THEN dict_get(root, ReservedKeys[
             Min({k \in DOMAIN ReservedKeys : key_applies(which, root, ReservedKeys[k])})]).items
    ELSE bfs(root, << <<>> >>, {})

\* An element as ElementTree holds it.  Its tag is "{uri}name" for a name in
\* a namespace and "name" for one in none; a name holds no brace.
QName(ns, name) == [ns |-> ns, name |-> name]
Element(tag, text, kids) == [tag |-> tag, text |-> text, kids |-> kids]

\* tag.split("}")[-1]
local_name(tag) == Key(tag.name)

RECURSIVE descendants(_)
\* the elements below el in document order
descendants(el) ==
    Flatten([i \in DOMAIN el.kids |-> <<el.kids[i]>> \o descendants(el.kids[i])])

\* root.findall(".//<name>"): the tag has to equal the name, so an element in
\* a namespace is not found
findall(root, name) == SelectSeq(descendants(root), LAMBDA e : e.tag = QName("", name))

\* findall(".//item") or findall(".//product") or findall(".//entry"),
\* else list(root)
candidates(root) ==
    IF findall(root, "item") # <<>> THEN findall(root, "item")
    ELSE IF findall(root, "product") # <<>> THEN findall(root, "product")
    ELSE IF findall(root, "entry") # <<>> THEN findall(root, "entry")
    ELSE root.kids

\* d[key] = value on an insertion-ordered dict
dict_set(kv, key, value) ==
    IF \E i \in DOMAIN kv : kv[i][1] = key
    THEN [i \in DOMAIN kv |-> IF kv[i][1] = key THEN <<key, value>> ELSE kv[i]]
    ELSE Append(kv, <<key, value>>)

RECURSIVE dict_fill(_, _)
\* the assignments d[k] = v for the pairs in order
dict_fill(kv, pairs) ==
    IF pairs = <<>> THEN kv
    ELSE dict_fill(dict_set(kv, Head(pairs)[1], Head(pairs)[2]), Tail(pairs))

\* c.text or ""
text_of(el) == Or(el.text, Str(<<>>))

\* the inner mapping of a child that has children
inner_dict(child) ==
    Dict(dict_fill(<<>>, [i \in DOMAIN child.kids |->
                            <<local_name(child.kids[i].tag), text_of(child.kids[i])>>]))

\* the record built from one candidate element
element_record(el) ==
    Dict(dict_fill(<<>>, [i \in DOMAIN el.kids |->
                            <<local_name(el.kids[i].tag),
                              IF el.kids[i].kids # <<>> THEN inner_dict(el.kids[i])
                              ELSE text_of(el.kids[i])>>]))

xml_records(root) == [i \in DOMAIN candidates(root) |-> element_record(candidates(root)[i])]

\* str.endswith
endswith(s, suf) == Len(s) >= Len(suf) /\ Drop(s, Len(s) - Len(suf)) = suf

DOT_JSON == <<".", "j", "s", "o", "n">>
DOT_XML == <<".", "x", "m", "l">>

LoadReturned(items) == [raised |-> FALSE, items |-> items]
LoadRaised == [raised |-> TRUE, items |-> <<>>]

\* load_feed(uploaded).  The file holds a JSON text, an XML document or
\* neither: json.loads raises on all but the first and ET.fromstring on all
\* but the second.
load_feed(which, up) ==
    IF endswith(lower(up.name), DOT_JSON)
    THEN (IF up.kind = "json" THEN LoadReturned(extract_products_from_json(which, up.json))
          ELSE LoadRaised)
    ELSE IF endswith(lower(up.name), DOT_XML)
    THEN (IF up.kind = "xml" THEN LoadReturned(xml_records(up.xml)) ELSE LoadRaised)
    ELSE LoadRaised

-----------------------------------------------------------------------------
(* The field table of the detailed report (app.py) *)

fields_display ==
    <<"id", "title", "description", "link", "image_link",
      "additional_image_link", "price", "sale_price", "sale_price_effective_date", "unit_pricing_measure",
      "pricing_trend", "availability", "availability_date", "inventory_quantity", "expiration_date",
      "condition", "product_category", "brand", "material", "dimensions",
      "length", "width", "height", "weight", "item_group_id",
      "item_group_title", "color", "size", "size_system", "gender",
      "offer_id", "custom_variant1_category", "custom_variant1_option", "custom_variant2_category", "custom_variant2_option",
      "shipping", "shipping_weight", "shipping_label", "tax", "seller_name",
      "seller_tos", "seller_privacy_policy", "enable_search", "enable_checkout", "geo_availability",
      "geo_price", "language", "updated_at", "created_at", "video_link",
      "model_3d_link", "raw_review_data", "q_and_a", "schema_org_json_ld", "metadata">>

\* the fields of fields_display whose name occurs in the lower-cased text of
\* a message of validate_product
fields_in(text) ==
    CASE text = "Missing required field: id" ->
             {"id"}
      [] text = "Missing required field: title" ->
             {"title"}
      [] text = "Missing required field: description" ->
             {"description"}
      [] text = "Missing required field: link" ->
             {"link"}
      [] text = "Missing required field: image_link" ->
             {"link", "image_link"}
      [] text = "Missing or invalid required field: price (expected 'number CUR', e.g., '79.99 USD')" ->
             {"id", "price"}
      [] text = "Missing required field: availability" ->
             {"availability"}
      [] text = "Missing required field: inventory_quantity" ->
             {"inventory_quantity"}
      [] text = "Either 'gtin' (recommended) or 'mpn' (required if gtin missing) must be provided" ->
             {"id"}
      [] text = "gtin is recommended (8-14 digits). If absent, mpn must be provided." ->
             {"id"}
      [] text = "brand is recommended for most products (max 70 chars)" ->
             {"brand"}
      [] text = "product_category (category) is recommended - helps classification and relevance" ->
             {"product_category"}
      [] text = "condition should be one of 'new', 'refurbished', 'used' (lower-case)" ->
             {"condition"}
      [] text = "weight (or shipping_weight) is recommended (positive number + unit)." ->
             {"weight", "shipping", "shipping_weight"}
      [] text = "model_3d_link provided but not a valid URL" ->
             {"id", "link", "model_3d_link"}
      [] text = "seller_name recommended (merchant display name)" ->
             {"seller_name"}
      [] text = "updated_at or created_at recommended for feed freshness tracking" ->
             {"updated_at", "created_at"}
      [] text = "id exceeds recommended max length 100 characters" ->
             {"id", "length"}
      [] text = "title exceeds recommended max length 150 characters" ->
             {"title", "length"}
      [] text = "description exceeds max length 5000 characters" ->
             {"description", "length"}
      [] text = "link must be a valid http(s) URL" ->
             {"id", "link"}
      [] text = "image_link must be a valid http(s) URL" ->
             {"id", "link", "image_link"}
      [] text = "price must be a non-negative number" ->
             {"price"}
      [] text = "price must include an ISO 4217 currency code (e.g., USD) per spec" ->
             {"price"}
      [] text = "availability must be one of 'in_stock', 'out_of_stock', 'preorder'" ->
             {"availability"}
      [] text = "inventory_quantity must be a non-negative integer" ->
             {"inventory_quantity"}
      [] text = "availability_date is required when availability='preorder'" ->
             {"availability", "availability_date"}
      [] text = "item_group_id is required when variant rows are present (e.g., color/size/offer_id)" ->
             {"id", "item_group_id", "color", "size", "offer_id"}
      [] text = "sale_price provided but not parseable as number + optional currency" ->
             {"id", "price", "sale_price"}
      [] text = "sale_price provided but sale_price_effective_date is missing (recommended)" ->
             {"id", "price", "sale_price", "sale_price_effective_date"}
      [] text = "link should use HTTPS (preferred)" ->
             {"link"}
      [] text = "image_link should use HTTPS (preferred)" ->
             {"link", "image_link"}
      [] text = "availability_date must be a valid ISO 8601 date" ->
             {"id", "availability", "availability_date"}
      [] text = "sale_price must be less than or equal to price" ->
             {"price", "sale_price"}
      [] text = "sale_price_effective_date must be a start/end ISO date range 'YYYY-MM-DD / YYYY-MM-DD'" ->
             {"price", "sale_price", "sale_price_effective_date"}
      [] text = "weight provided but could not parse numeric part" ->
             {"id", "weight"}
      [] text = "shipping entry '{s}' expected 'country:region:service_class:price'" ->
             {"price", "shipping"}
      [] text = "availability_date must be a future date for preorder items" ->
             {"availability", "availability_date"}
      [] text = "sale_price_effective_date start or end not valid ISO date" ->
             {"id", "price", "sale_price", "sale_price_effective_date"}
      [] text = "additional_image_link contains non-URL entries" ->
             {"link", "image_link", "additional_image_link"}
      [] text = "additional_image_link is present but not a valid URL or list" ->
             {"id", "link", "image_link", "additional_image_link"}
      [] text = "video_link contains invalid URL" ->
             {"id", "link", "video_link"}
      [] text = "video_link is not a valid URL" ->
             {"id", "link", "video_link"}
      [] text = "shipping entry price not parseable in '{s}'" ->
             {"price", "shipping"}
      [] text = "sale_price_effective_date start must be before end" ->
             {"price", "sale_price", "sale_price_effective_date"}
      [] OTHER -> {}

\* sub in s
Contains(s, sub) ==
    \E i \in 0..(Len(s) - Len(sub)) : SubSeq(s, i + 1, i + Len(sub)) = sub

\* field.lower() in e.lower(), the inserted text of an f-string included
mentions(field, m) ==
    field \in fields_in(m.text) \/ Contains(lower(m.arg), name_text(field))

PLACEHOLDER == Str(<<"-">>)
NoNote == [text |-> "-", arg |-> <<>>]

\* the loop over the errors has no break: the last match stays in notes
last_match(hits) == Max(hits)

\* one row of table_rows, val = safe_get(p, field)
table_row(field, val, errs, warns) ==
    Bind({i \in DOMAIN errs : mentions(field, errs[i])}, LAMBDA ehits :
    Bind({i \in DOMAIN warns : mentions(field, warns[i])}, LAMBDA whits :
        [Field |-> field,
         Status |-> IF ehits # {} THEN "Invalid"
                    ELSE IF ~InNoneEmpty(val) THEN "Present" ELSE "Missing",
         Value |-> IF ~InNoneEmpty(val) THEN val ELSE PLACEHOLDER,
         Notes |-> IF ehits # {} THEN errs[last_match(ehits)]
                   ELSE IF whits # {} THEN warns[Min(whits)]
                   ELSE NoNote]))

\* table_rows for one record and its result
table_rows(rec, result) ==
    [k \in DOMAIN fields_display |->
        table_row(fields_display[k], safe_get(rec, fields_display[k]),
                  result.errors_list, result.warnings_list)]

-----------------------------------------------------------------------------
(* SpecLoad: the app.py script from the upload to the detailed report, and  *)
(* a call of utils.parse.load_feed                                          *)

X_id == Element(QName("", "id"), Str(T_1), <<>>)
X_id3 == Element(QName("", "id"), Str(T_3), <<>>)
X_gid == Element(QName("g", "id"), Str(T_2), <<>>)
X_title == Element(QName("", "title"), None, <<>>)
X_shipping ==
    Element(QName("g", "shipping"), None,
            <<Element(QName("g", "country"), Str(T_US), <<>>),
              Element(QName("g", "price"), None, <<>>),
              Element(QName("", "country"), Str(T_1),
                      <<Element(QName("", "region"), Str(T_2), <<>>)>>)>>)

XmlKids == {<<>>, <<X_id>>, <<X_id, X_title>>, <<X_id, X_gid>>, <<X_gid, X_shipping>>,
            <<X_id, X_title, X_id3>>}
XmlTags == {QName("", "item"), QName("", "product"), QName("", "entry"),
            QName("g", "item"), QName("atom", "entry"), QName("", "row")}

XmlDocs ==
    {Element(QName("", "feed"), None,
             <<Element(t1, None, k1), Element(t2, None, <<X_id>>)>>) :
        t1 \in XmlTags, t2 \in XmlTags, k1 \in XmlKids}
    \cup {Element(QName("", "rss"), None,
                  <<Element(QName("", "channel"), None,
                            <<X_title, Element(t1, None, <<X_gid, X_shipping>>)>>),
                    Element(t2, None, <<X_id>>)>>) :
            t1 \in XmlTags, t2 \in XmlTags}
    \cup {Element(QName("", "feed"), None,
                  <<Element(QName("", "item"), None,
                            <<X_id, Element(QName("", "item"), None, <<X_gid>>)>>)>>),
          Element(QName("", "feed"), None, <<>>)}

R_negPrice == Overlay(GoodBase, Field(Key("price"), Str(<<"-", "1">>)))
R_shipId ==
    Overlay(GoodBase, Field(Key("shipping"), Str(<<"I", "D", ":", "5", " ", "U", "S", "D">>)))

JsonDocs ==
    {List(<<R_good, R_negPrice>>), Wrap("products", List(<<R_noTitle>>)), R_good,
     List(<<>>), Num(1), Wrap("a", Wrap("b", List(<<R_negPrice, R_shipId>>))),
     Wrap("items", List(<<Num(1), R_good>>))}

FileNames ==
    {<<"f", ".", "j", "s", "o", "n">>, <<"F", ".", "J", "S", "O", "N">>,
     <<"f", ".", "x", "m", "l">>, <<"f", ".", "c", "s", "v">>, <<"f", "j", "s", "o", "n">>}

Uploads ==
    {[name |-> n, kind |-> "json", json |-> j, xml |-> NoUpload.xml] :
        n \in FileNames, j \in JsonDocs}
    \cup {[name |-> n, kind |-> "xml", json |-> None, xml |-> x] : n \in FileNames, x \in XmlDocs}
    \cup {[name |-> n, kind |-> "malformed", json |-> None, xml |-> NoUpload.xml] : n \in FileNames}

InitLoad ==
    /\ uploaded \in Uploads \cup {NoUpload}
    /\ impl \in {"app", "utils"}
    /\ banner = "" /\ reports = <<>>
    /\ products = <<>> /\ prod_results = <<>> /\ total_errors = 0 /\ total_warnings = 0
    /\ issue_counts = <<>> /\ df_issues = <<>>
    /\ pc = "upload"
    /\ clock = ClockStart /\ runStart = ClockStart
    /\ obj = None /\ queue = <<>> /\ seen = {} /\ visited = <<>> /\ ret = <<>> /\ epc = "idle"
    /\ IdleRules

\* a faulty script that goes on to the loop after a failed load
after_load_lenient(r) ==
    /\ products' = r.items
    /\ banner' = IF r.raised THEN "Failed to parse uploaded file" ELSE "Loaded"
    /\ pc' = "validate"

\* the script after load_feed: the except branch, the empty feed, the loop
after_load(r) ==
    IF r.raised
    THEN /\ banner' = "Failed to parse uploaded file"
         /\ pc' = "stopped"
         /\ UNCHANGED products
    ELSE IF r.items = <<>>
    THEN /\ products' = r.items
         /\ banner' = "No product records were detected in the uploaded feed."
         /\ pc' = "stopped"
    ELSE /\ products' = r.items
         /\ banner' = "Loaded"
         /\ pc' = "validate"

\* the script from the uploader to the start of the loop
LoadFeed ==
    /\ pc = "upload" /\ impl = "app"
    /\ IF uploaded = NoUpload
       THEN /\ banner' = "Please upload a JSON or XML product feed file to validate."
            /\ pc' = "stopped"
            /\ UNCHANGED products
       ELSE after_load(load_feed("app", uploaded))
    /\ UNCHANGED <<prod_results, total_errors, total_warnings, issue_counts, df_issues,
                   runStart, clock, uploaded, reports>>
    /\ UNCHANGED rulesVars /\ UNCHANGED extractVars

\* what a caller of utils.parse.load_feed holds after the call
utils_caller(r) ==
    IF r.raised THEN pc' = "raised" /\ UNCHANGED products
    ELSE pc' = "returned" /\ products' = r.items

\* a caller runs utils.parse.load_feed(uploaded)
UtilsLoadFeed ==
    /\ pc = "upload" /\ impl = "utils" /\ uploaded # NoUpload
    /\ utils_caller(load_feed("utils", uploaded))
    /\ UNCHANGED <<prod_results, total_errors, total_warnings, issue_counts, df_issues,
                   runStart, clock>>
    /\ UNCHANGED rulesVars /\ UNCHANGED extractVars /\ UNCHANGED loadVars

\* the detailed report: one field table per record
Report ==
    /\ pc = "done"
    /\ reports' = [idx \in DOMAIN products |-> table_rows(products[idx], prod_results[idx])]
    /\ pc' = "reported"
    /\ UNCHANGED <<products, prod_results, total_errors, total_warnings, issue_counts,
                   df_issues, runStart, clock, uploaded, banner>>
    /\ UNCHANGED rulesVars /\ UNCHANGED extractVars

NextLoad == LoadFeed \/ UtilsLoadFeed \/ ValidateNext \/ Summarize \/ Report \/ TickRun
SpecLoad == InitLoad /\ [][NextLoad]_vars

-----------------------------------------------------------------------------
(* Properties of the rule engines, stated over SpecRules *)

HasError(out, texts) == \E i \in DOMAIN out.errors : out.errors[i].text \in texts

\* the record as a case-insensitive reader sees it: every key lower-cased and,
\* of the keys that match the same name, the first in iteration order kept
Canon(rec) ==
    Dict([i \in 1..Len(SelectSeq([j \in DOMAIN rec.kv |-> j], LAMBDA j :
                \A h \in 1..(j - 1) : lower_key(rec.kv[h][1]) # lower_key(rec.kv[j][1]))) |->
          Bind(SelectSeq([j \in DOMAIN rec.kv |-> j], LAMBDA j :
                \A h \in 1..(j - 1) : lower_key(rec.kv[h][1]) # lower_key(rec.kv[j][1]))[i],
               LAMBDA j : <<lower_key(rec.kv[j][1]), rec.kv[j][2]>>)])

MissingId == {"Missing required field: id"}

\* C1: both engines return for every record without raising, every rule
\* module having added its output, and a record without an id gets the
\* missing-id error among a non-empty list of errors.
C1_Totality ==
    /\ modular.done =>
          /\ ~modular.raised
          /\ modular.ran = [k \in 1..NumModules |-> k]
          /\ InNoneEmpty(safe_get(p, "id")) => HasError(modular, MissingId)
    /\ mono.done =>
          /\ ~mono.raised
          /\ InNoneEmpty(safe_get(p, "id")) => HasError(mono, MissingId)

\* C2: every rule reads its fields case-insensitively and takes the first
\* matching key: each engine gives a record the diagnostics it gives the
\* same record with its keys lower-cased and later duplicates dropped.
C2_CaseInsensitiveLookup ==
    /\ (modular.done /\ ~modular.raised) =>
          /\ modular.errors = run_all_validations(Canon(p)).errors
          /\ modular.warnings = run_all_validations(Canon(p)).warnings
    /\ (mono.done /\ ~mono.raised) =>
          /\ mono.errors = validate_product(Canon(p), mono.now).errors
          /\ mono.warnings = validate_product(Canon(p), mono.now).warnings

AvailDateErrors ==
    {"availability_date required for preorder", "availability_date must be ISO 8601",
     "availability_date is required when availability='preorder'",
     "availability_date must be a valid ISO 8601 date",
     "availability_date must be a future date for preorder items"}

\* the date is absent, is no ISO-8601 date, or is an instant not after now
DateNotAhead(ad, now) ==
    \/ ~Truthy(ad)
    \/ ~parse_iso_date(str(ad)).ok
    \/ LexLeq(parse_iso_date(str(ad)).at, now)

\* C8: for a preorder record an engine reports an availability_date error
\* exactly when the date is absent, unparseable or not after the now of the
\* call; it reports (it does not raise) in each of these cases.
C8_PreorderDateLaw ==
    safe_get(p, "availability") = Str(S_preorder) =>
        /\ modular.done =>
              /\ ~modular.raised
              /\ HasError(modular, AvailDateErrors)
                    <=> DateNotAhead(safe_get(p, "availability_date"), modular.now)
        /\ mono.done =>
              /\ ~mono.raised
              /\ HasError(mono, AvailDateErrors)
                    <=> DateNotAhead(safe_get(p, "availability_date"), mono.now)

SaleOrderErrors ==
    {"sale_price must be <= price", "sale_price must be less than or equal to price"}

\* price and sale_price are both there and both parse to an amount
BothAmounts(rec) ==
    /\ ~IsNone(safe_get(rec, "price")) /\ ~IsNone(safe_get(rec, "sale_price"))
    /\ parse_price(safe_get(rec, "price")).val.ok
    /\ parse_price(safe_get(rec, "sale_price")).val.ok

SaleAbovePrice(rec) ==
    AmountGt(parse_price(safe_get(rec, "sale_price")).val, parse_price(safe_get(rec, "price")).val)

\* C9: where price and sale_price both parse to amounts, an engine reports
\* the sale-price ordering error exactly when the sale amount is strictly
\* greater than the price amount.
C9_SalePriceOrdering ==
    BothAmounts(p) =>
        /\ (modular.done /\ ~modular.raised) =>
              (HasError(modular, SaleOrderErrors) <=> SaleAbovePrice(p))
        /\ (mono.done /\ ~mono.raised) =>
              (HasError(mono, SaleOrderErrors) <=> SaleAbovePrice(p))

GroupIdErrors ==
    {"item_group_id required when variants exist",
     "item_group_id is required when variant rows are present (e.g., color/size/offer_id)"}

\* one of color, size, offer_id is there and not empty, and item_group_id is not
VariantWithoutGroup(rec) ==
    /\ \E f \in {"color", "size", "offer_id"} : Truthy(safe_get(rec, f))
    /\ ~Truthy(safe_get(rec, "item_group_id"))

\* C10: an engine reports the item_group_id error exactly for the records
\* that carry a non-empty color, size or offer_id and no item_group_id.
C10_ConditionalVariantRule ==
    /\ (modular.done /\ ~modular.raised) =>
          (HasError(modular, GroupIdErrors) <=> VariantWithoutGroup(p))
    /\ (mono.done /\ ~mono.raised) =>
          (HasError(mono, GroupIdErrors) <=> VariantWithoutGroup(p))

-----------------------------------------------------------------------------
(* Properties of the script run, stated over SpecRun *)

\* the places of the error and warning lists of the results
Positions ==
    UNION {({i} \X {"errors_list"} \X (DOMAIN prod_results[i].errors_list))
           \cup ({i} \X {"warnings_list"} \X (DOMAIN prod_results[i].warnings_list)) :
           i \in DOMAIN prod_results}

\* how often message m stands in the error and warning lists of the results
Occurrences(m) ==
    Cardinality({x \in Positions : prod_results[x[1]][x[2]][x[3]] = m})

ReportedMessages ==
    UNION {{prod_results[i].errors_list[j] : j \in DOMAIN prod_results[i].errors_list}
           \cup {prod_results[i].warnings_list[j] : j \in DOMAIN prod_results[i].warnings_list} :
           i \in DOMAIN prod_results}

RECURSIVE SumCounts(_)
SumCounts(table) == IF table = <<>> THEN 0 ELSE Head(table)[2] + SumCounts(Tail(table))

\* C5: once all records are processed the issue table holds one entry per
\* distinct reported message, each count is the number of occurrences of
\* the message over all error and warning lists, the counts add up to
\* total errors + total warnings, and the entries stand in non-increasing
\* count order.
C5_IssueTable ==
    pc = "done" =>
        /\ Len(prod_results) = Len(products)
        /\ \A i, j \in DOMAIN df_issues : df_issues[i][1] = df_issues[j][1] => i = j
        /\ {df_issues[i][1] : i \in DOMAIN df_issues} = ReportedMessages
        /\ \A i \in DOMAIN df_issues : df_issues[i][2] = Occurrences(df_issues[i][1])
        /\ SumCounts(df_issues) = total_errors + total_warnings
        /\ \A i, j \in DOMAIN df_issues : i < j => df_issues[i][2] >= df_issues[j][2]

\* two records each missing title: one entry for the message, with count 2,
\* among entries of different counts
C5_Witness ==
    /\ pc = "done"
    /\ products = <<R_noTitle, R_noTitle, R_good>>
    /\ \E i \in DOMAIN df_issues : df_issues[i] = <<Msg("Missing required field: title"), 2>>
    /\ \E i \in DOMAIN df_issues : df_issues[i][2] = 3

\* what record rec gets when validated against the now of the run
ResultAt(rec, now) ==
    [errors_list |-> validate_product(rec, now).errors,
     warnings_list |-> validate_product(rec, now).warnings,
     infos_list |-> validate_product(rec, now).infos]

\* C6: the result held for the record at index i is the one its content and
\* the now of the run determine, whatever the other records are and whenever
\* they are evaluated, and a finished run holds one result per record.
C6_RecordIndependence ==
    /\ \A i \in DOMAIN prod_results :
          /\ ~validate_product(products[i], runStart).raised
          /\ prod_results[i] = ResultAt(products[i], runStart)
    /\ pc \in {"done", "crashed"} => Len(prod_results) = Len(products)

\* C7: two records of one feed with the same content get the same
\* diagnostics, however far the clock moves between their evaluations.
C7_SingleNow ==
    \A i, j \in DOMAIN prod_results :
        products[i] = products[j] => prod_results[i] = prod_results[j]

-----------------------------------------------------------------------------
(* Properties of extract_products_from_json, stated over SpecExtract *)

RECURSIVE paths_of(_)
\* the places of all objects of the document v
paths_of(v) ==
    {<<>>} \cup UNION {{<<i>> \o q : q \in paths_of(children(v)[i])} : i \in DOMAIN children(v)}

\* place a is met before place b by a breadth-first walk
BfsBefore(a, b) == Len(a) < Len(b) \/ (Len(a) = Len(b) /\ LexLess(a, b))

\* the first place of S in breadth-first order
BfsFirst(S) == CHOOSE a \in S : \A b \in S \ {a} : BfsBefore(a, b)

ListsOfMappings(root) ==
    {a \in paths_of(root) : IsList(node_at(root, a)) /\ all_dicts(node_at(root, a).items)}

NonEmptyListsOfMappings(root) ==
    {a \in ListsOfMappings(root) : node_at(root, a).items # <<>>}

\* the reserved keys of a mapping root that hold a list of mappings only
ReservedFeeds(root) ==
    {k \in DOMAIN ReservedKeys :
        /\ IsDict(root) /\ dict_has(root, ReservedKeys[k])
        /\ IsList(dict_get(root, ReservedKeys[k]))
        /\ all_dicts(dict_get(root, ReservedKeys[k]).items)}

\* C3: on a mapping root the value of a reserved key is returned only if it
\* is a list of mappings, the first such key in the fixed order is the one
\* returned, and so the returned records are all mappings.
C3_ReservedKeyOnlyMappings ==
    (epc = "returned" /\ IsDict(obj)) =>
        /\ \A i \in DOMAIN ret : IsDict(ret[i])
        /\ ReservedFeeds(obj) # {} =>
              ret = dict_get(obj, ReservedKeys[Min(ReservedFeeds(obj))]).items

\* the root is no list of mappings and no reserved key gives the records
\* (in utils/parse.py a reserved key gives them whenever it holds a list)
SearchCase ==
    /\ ~(IsList(obj) /\ all_dicts(obj.items))
    /\ ReservedFeeds(obj) = {}
    /\ impl = "utils" => ~\E k \in DOMAIN ReservedKeys : key_applies("utils", obj, ReservedKeys[k])

\* what the search gives when the lists of S are the ones that qualify
SearchResult(S) ==
    IF S # {} THEN node_at(obj, BfsFirst(S)).items
    ELSE IF IsDict(obj) THEN <<obj>> ELSE <<>>

\* C4 as stated: in the search case the first list of mappings in
\* breadth-first order is returned, an empty list being one of them; the
\* root alone if no list qualifies and the root is a mapping; else nothing.
C4_FirstListOfMappings ==
    (epc = "returned" /\ SearchCase) => ret = SearchResult(ListsOfMappings(obj))

\* C4, amended: in the search case the first non-empty list of mappings in
\* breadth-first order is returned; the root alone if there is none and the
\* root is a mapping; else nothing.  Every call returns.
C4_FirstNonEmptyListOfMappings ==
    /\ []((epc = "returned" /\ SearchCase) => ret = SearchResult(NonEmptyListsOfMappings(obj)))
    /\ <>(epc = "returned")

\* {"a": {"a": [r1, r2]}, "b": [r2]}: the list at depth 1 is returned, not
\* the one met first going down, after the search visited root, a and b
C4_Witness ==
    /\ epc = "returned"
    /\ obj = Pair("a", Wrap("a", List(<<R1, R2>>)), "b", List(<<R2>>))
    /\ visited = << <<>>, <<1>>, <<2>> >>
    /\ ret = <<R2>>

-----------------------------------------------------------------------------
(* Properties of price parsing and the pricing rule, stated over SpecRules *)

\* a numeral: digits, or digits, a point and digits
IsDecimal(s) ==
    /\ s # <<>>
    /\ \A i \in DOMAIN s : IsDigit(s[i]) \/ s[i] = "."
    /\ Cardinality({i \in DOMAIN s : s[i] = "."}) <= 1
    /\ IsDigit(s[1]) /\ IsDigit(s[Len(s)])

\* the amount a numeral denotes
DecimalAmount(s) ==
    Amount(DigitsVal(SelectSeq(s, IsDigit)),
           IF \E i \in DOMAIN s : s[i] = "."
           THEN Len(s) - Min({i \in DOMAIN s : s[i] = "."}) ELSE 0)

AmountEq(a, b) == a.ok /\ b.ok /\ a.m * Pow10(b.d) = b.m * Pow10(a.d)

\* the price of the record, where it is written under the key "price"
PriceOf(rec) == dict_get(rec, "price")
PriceText(rec) == strip(str(PriceOf(rec)))

\* the price is a numeral and nothing else
PlainPrice(rec) ==
    /\ PriceOf(rec) = safe_get(rec, "price")
    /\ PriceOf(rec).t \in {"str", "num"}
    /\ IsDecimal(PriceText(rec))

\* the price is a numeral followed by three capital letters
CodedPrice(rec) ==
    /\ PriceOf(rec) = safe_get(rec, "price")
    /\ IsStr(PriceOf(rec))
    /\ Len(PriceText(rec)) > 3
    /\ IsCurrencyCode(Drop(PriceText(rec), Len(PriceText(rec)) - 3))
    /\ IsDecimal(RStrip(Take(PriceText(rec), Len(PriceText(rec)) - 3)))

CodeOf(rec) == Str(Drop(PriceText(rec), Len(PriceText(rec)) - 3))
NumeralOf(rec) == RStrip(Take(PriceText(rec), Len(PriceText(rec)) - 3))

MissingCurrencyErrors ==
    {"price must include ISO 4217 currency code per spec",
     "price must include an ISO 4217 currency code (e.g., USD) per spec"}
PriceErrors ==
    MissingCurrencyErrors
    \cup {"Missing or invalid required field: price",
          "Missing or invalid required field: price (expected 'number CUR', e.g., '79.99 USD')",
          "price must be non-negative", "price must be a non-negative number"}

-----------------------------------------------------------------------------
(* Properties of the flag rule, stated over SpecRules *)

HasWarning(out, texts) == \E i \in DOMAIN out.warnings : out.warnings[i].text \in texts

\* the flag is on: the boolean true or the string "true"
FlagTrue(v) == v = Bool(TRUE) \/ v = Str(T_true)
\* the flag is absent, a boolean, or one of the strings "true" and "false"
FlagForm(v) == IsNone(v) \/ v \in FlagVals

CheckoutWithoutSearch == {"enable_checkout cannot be true when enable_search is not true"}
SearchAbsent == {"enable_search recommended but not present; must be lower-case string true/false"}
CheckoutAbsent == {"enable_checkout recommended but not present; must be lower-case string true/false"}

\* C12: for flags given as booleans or as the strings "true"/"false" (or
\* left out), the flag rule reports the checkout-without-search error exactly
\* when enable_checkout is true and enable_search is not true, and a flag
\* that is left out gets the warning for that flag.
C12_FlagImplication ==
    (/\ modular.done /\ ~modular.raised
     /\ FlagForm(dict_get(p, "enable_search")) /\ FlagForm(dict_get(p, "enable_checkout"))) =>
        /\ HasError(modular, CheckoutWithoutSearch)
              <=> (FlagTrue(dict_get(p, "enable_checkout")) /\ ~FlagTrue(dict_get(p, "enable_search")))
        /\ IsNone(dict_get(p, "enable_search")) => HasWarning(modular, SearchAbsent)
        /\ IsNone(dict_get(p, "enable_checkout")) => HasWarning(modular, CheckoutAbsent)

-----------------------------------------------------------------------------
(* Properties of the script around the loop, stated over SpecLoad *)

\* the format the file name declares
DeclaredFormat(up) ==
    IF endswith(lower(up.name), DOT_JSON) THEN "json"
    ELSE IF endswith(lower(up.name), DOT_XML) THEN "xml"
    ELSE "unsupported"

\* the name declares neither format, or the file does not hold a document of
\* the declared format
LoadFails(up) == DeclaredFormat(up) = "unsupported" \/ up.kind # DeclaredFormat(up)

NoDiagnostics ==
    /\ prod_results = <<>> /\ total_errors = 0 /\ total_warnings = 0
    /\ issue_counts = <<>> /\ df_issues = <<>> /\ reports = <<>>

\* C13: when load_feed fails (malformed JSON or XML, or a file name ending in
\* neither .json nor .xml) the script stops with no record validated and no
\* per-record or aggregate diagnostics; the loop runs only after the whole
\* feed has been parsed, on the records load_feed returned.
C13_FatalFeedErrors ==
    impl = "app" =>
        /\ (uploaded # NoUpload /\ LoadFails(uploaded) /\ pc # "upload") =>
              pc = "stopped" /\ products = <<>> /\ NoDiagnostics
        /\ (pc \in {"validate", "crashed", "done", "reported"} \/ ~NoDiagnostics) =>
              /\ uploaded # NoUpload /\ ~LoadFails(uploaded)
              /\ products = load_feed("app", uploaded).items

\* the script has stopped on a .json file that holds no JSON text
C13_Witness ==
    /\ impl = "app" /\ pc = "stopped"
    /\ uploaded.kind = "malformed" /\ DeclaredFormat(uploaded) = "json"
    /\ banner = "Failed to parse uploaded file"
    /\ NoDiagnostics

\* the rows of the field tables: record number and row number
ReportRows == UNION {{idx} \X (DOMAIN reports[idx]) : idx \in DOMAIN reports}

\* the status and the note the row of a field is to carry
ExpectedStatus(field, val, errs) ==
    IF \E i \in DOMAIN errs : mentions(field, errs[i]) THEN "Invalid"
    ELSE IF ~InNoneEmpty(val) THEN "Present" ELSE "Missing"
ExpectedNote(field, errs, warns) ==
    IF \E i \in DOMAIN errs : mentions(field, errs[i])
    THEN errs[Min({i \in DOMAIN errs : mentions(field, errs[i])})]
    ELSE IF \E i \in DOMAIN warns : mentions(field, warns[i])
    THEN warns[Min({i \in DOMAIN warns : mentions(field, warns[i])})]
    ELSE NoNote

\* C14: in the field table of every record, a field is Invalid exactly when
\* some error of the record mentions its name, else Present when its value
\* is not empty and Missing when it is; its note is the first error of the
\* record that mentions the name or, if no error does, the first such
\* warning.
C14_FieldReportRow ==
    \A r \in ReportRows :
        /\ reports[r[1]][r[2]].Field = fields_display[r[2]]
        /\ reports[r[1]][r[2]].Status =
              ExpectedStatus(fields_display[r[2]],
                             safe_get(products[r[1]], fields_display[r[2]]),
                             prod_results[r[1]].errors_list)
        /\ reports[r[1]][r[2]].Notes =
              ExpectedNote(fields_display[r[2]], prod_results[r[1]].errors_list,
                           prod_results[r[1]].warnings_list)

\* the descendants of the root whose local name is the given one
Named(root, name) == SelectSeq(descendants(root), LAMBDA e : e.tag.name = name)

\* item elements if there are any, else product, else entry, else the
\* children of the root
CandidateElements(root) ==
    IF Named(root, "item") # <<>> THEN Named(root, "item")
    ELSE IF Named(root, "product") # <<>> THEN Named(root, "product")
    ELSE IF Named(root, "entry") # <<>> THEN Named(root, "entry")
    ELSE root.kids

\* the text of an element, '' when it has none
TextOf(el) == IF Truthy(el.text) THEN el.text ELSE Str(<<>>)

\* v maps the local name of every child of el to its text, and nothing else
InnerOf(v, el) ==
    /\ IsDict(v)
    /\ {v.kv[i][1] : i \in DOMAIN v.kv} = {Key(el.kids[i].tag.name) : i \in DOMAIN el.kids}
    /\ \A i \in DOMAIN el.kids : dict_get(v, el.kids[i].tag.name) = TextOf(el.kids[i])

\* v is what a child element stands for in its record
FieldHolds(v, child) ==
    IF child.kids = <<>> THEN v = TextOf(child) ELSE InnerOf(v, child)

\* the record holds a field for every child of the element and no other
RecordOf(rec, el) ==
    /\ IsDict(rec)
    /\ {rec.kv[i][1] : i \in DOMAIN rec.kv} = {Key(el.kids[i].tag.name) : i \in DOMAIN el.kids}
    /\ \A i \in DOMAIN el.kids : FieldHolds(dict_get(rec, el.kids[i].tag.name), el.kids[i])

\* C15: load_feed on an XML document gives one record per candidate element
\* in document order, the candidates being the descendants named item if
\* there are any, else those named product, else those named entry, else the
\* children of the root; every child of a candidate is a field under its
\* local name, holding its text ('' when it has none) or, when it has
\* children, the mapping from their local names to their texts.
C15_XmlNormalization ==
    (pc # "upload" /\ uploaded.kind = "xml" /\ DeclaredFormat(uploaded) = "xml") =>
        /\ Len(products) = Len(CandidateElements(uploaded.xml))
        /\ \A i \in DOMAIN products :
              i <= Len(CandidateElements(uploaded.xml))
                 => RecordOf(products[i], CandidateElements(uploaded.xml)[i])

-----------------------------------------------------------------------------
(* Properties of the sale rules, stated over SpecRules *)

SaleRangeErrors ==
    {"sale_price_effective_date must be range start/end",
     "sale_price_effective_date dates must be ISO 8601",
     "sale_price_effective_date must be a start/end ISO date range 'YYYY-MM-DD / YYYY-MM-DD'",
     "sale_price_effective_date start or end not valid ISO date",
     "sale_price_effective_date start must be before end"}
SaleRangeMissing ==
    {"sale_price provided but sale_price_effective_date is missing (recommended)"}

\* two parts around one slash, both ISO dates, the first before the second
RangeOK(v) ==
    /\ Len(slash_range(str(v))) = 2
    /\ parse_iso_date(slash_range(str(v))[1]).ok
    /\ parse_iso_date(slash_range(str(v))[2]).ok
    /\ LexLess(parse_iso_date(slash_range(str(v))[1]).at, parse_iso_date(slash_range(str(v))[2]).at)

\* what C16 asks of one engine's outcome
SaleRangeLaw(out) ==
    /\ Truthy(safe_get(p, "sale_price_effective_date")) =>
          /\ ~out.raised
          /\ HasError(out, SaleRangeErrors) <=> ~RangeOK(safe_get(p, "sale_price_effective_date"))
    /\ (~InNoneEmpty(safe_get(p, "sale_price")) /\ ~Truthy(safe_get(p, "sale_price_effective_date"))) =>
          /\ ~out.raised
          /\ HasWarning(out, SaleRangeMissing) /\ ~HasError(out, SaleRangeErrors)

\* C16: whenever sale_price_effective_date is present, with or without a
\* sale_price, an engine reports an error unless the value is two ISO dates
\* around one slash with the start strictly before the end; a sale_price
\* without sale_price_effective_date gets a warning and no error.
C16_SaleDateRange ==
    /\ modular.done => SaleRangeLaw(modular)
    /\ mono.done => SaleRangeLaw(mono)

SaleErrors ==
    {"sale_price present but not parseable",
     "sale_price provided but not parseable as number + optional currency",
     "sale_price must be <= price", "sale_price must be less than or equal to price"}
NegativePriceErrors == {"price must be non-negative", "price must be a non-negative number"}

\* sale_price is there and is no non-negative amount
SaleNotAmount(rec) ==
    /\ ~InNoneEmpty(safe_get(rec, "sale_price"))
    /\ \/ ~parse_price(safe_get(rec, "sale_price")).val.ok
       \/ AmountNeg(parse_price(safe_get(rec, "sale_price")).val)
\* price parses to a negative amount
PriceNegative(rec) ==
    /\ parse_price(safe_get(rec, "price")).val.ok
    /\ AmountNeg(parse_price(safe_get(rec, "price")).val)

\* C17: a sale_price that is present and does not parse to a non-negative
\* amount (unparsable, or negative) gets an error about sale_price from each
\* engine, and a price that parses to a negative amount gets a price error.
C17_NonNegativeAmounts ==
    /\ (modular.done /\ ~modular.raised) =>
          /\ SaleNotAmount(p) => HasError(modular, SaleErrors)
          /\ PriceNegative(p) => HasError(modular, NegativePriceErrors)
    /\ (mono.done /\ ~mono.raised) =>
          /\ SaleNotAmount(p) => HasError(mono, SaleErrors)
          /\ PriceNegative(p) => HasError(mono, NegativePriceErrors)

\* the currency is None or three capital letters
CodeOrNone(cur) == IsNone(cur) \/ (IsStr(cur) /\ IsCurrencyCode(cur.s))

\* the text is a number and a second word that is no currency code
SecondWordNoCode(s) ==
    /\ Len(split_ws(s)) > 1
    /\ float_str(split_ws(s)[1]).ok
    /\ ~IsCurrencyCode(split_ws(s)[2])

\* C19: for a price given as a string both parsers return a currency that is
\* None or three upper-case letters, and (None, None) when they find no
\* amount; a second word that is no such code is not returned as the
\* currency, so the missing-currency error is reported for that price.
C19_CurrencyShape ==
    IsStr(PriceOf(p)) =>
        /\ CodeOrNone(parse_price(PriceOf(p)).cur)
        /\ CodeOrNone(extract_price_and_currency(PriceOf(p)).cur)
        /\ ~parse_price(PriceOf(p)).val.ok => parse_price(PriceOf(p)) = NoPrice
        /\ ~extract_price_and_currency(PriceOf(p)).val.ok
              => extract_price_and_currency(PriceOf(p)) = NoPrice
        /\ (SecondWordNoCode(PriceOf(p).s) /\ modular.done /\ ~modular.raised)
              => HasError(modular, MissingCurrencyErrors)
        /\ (SecondWordNoCode(PriceOf(p).s) /\ mono.done /\ ~mono.raised /\ PriceOf(p) = safe_get(p, "price"))
              => HasError(mono, MissingCurrencyErrors)

-----------------------------------------------------------------------------
(* Properties of the media rules, stated over SpecRules *)

MediaTexts(f) ==
    CASE f = "additional_image_link" ->
            {"additional_image_link contains invalid URL",
             "additional_image_link contains non-URL entries",
             "additional_image_link is present but not a valid URL or list"}
      [] f = "video_link" ->
            {"video_link not valid URL", "video_link contains invalid URL",
             "video_link is not a valid URL"}
      [] f = "model_3d_link" ->
            {"model_3d_link not valid URL", "model_3d_link provided but not a valid URL"}

\* the URLs a media field gives: the items of a list, the pieces of a
\* comma-joined string, or the one string
MediaElements(v) ==
    IF IsList(v) THEN v.items
    ELSE IF HasComma(v) THEN StrsOf(comma_entries(v.s))
    ELSE <<v>>

\* the field is a string or a list of strings, and is not empty
MediaGiven(v) ==
    /\ Truthy(v)
    /\ IsStr(v) \/ (IsList(v) /\ \A i \in DOMAIN v.items : IsStr(v.items[i]))

WarningCount(out, texts) == Cardinality({i \in DOMAIN out.warnings : out.warnings[i].text \in texts})

\* what C20 asks of one engine's outcome
MediaLaw(out) ==
    \A f \in MediaFields :
        MediaGiven(safe_get(p, f)) =>
            /\ ~HasError(out, MediaTexts(f))
            /\ WarningCount(out, MediaTexts(f)) =
                  IF \A i \in DOMAIN MediaElements(safe_get(p, f)) :
                        is_url(MediaElements(safe_get(p, f))[i])
                  THEN 0 ELSE 1

\* C20: for additional_image_link, video_link and model_3d_link given as one
\* string, a comma-joined string or a list, an engine gives no warning for
\* the field when every element is an http(s) URL with a host, and exactly
\* one warning, and no error, when some element is not.
C20_MediaLinks ==
    /\ (modular.done /\ ~modular.raised) => MediaLaw(modular)
    /\ (mono.done /\ ~mono.raised) => MediaLaw(mono)

-----------------------------------------------------------------------------
(* Properties of the orchestrator, stated over SpecRules *)

\* what the rule module of a given name returns for a record
validator(name, rec) ==
    CASE name = "flags" -> validate_flags(rec)
      [] name = "basic" -> validate_basic(rec)
      [] name = "item_info" -> validate_item_info(rec)
      [] name = "media" -> validate_media(rec)
      [] name = "pricing" -> validate_pricing(rec)
      [] name = "availability" -> validate_availability(rec)
      [] name = "variants" -> validate_variants(rec)
      [] name = "fulfillment" -> validate_fulfillment(rec)
      [] name = "merchant" -> validate_merchant(rec)
      [] name = "returns" -> validate_returns(rec)
      [] name = "performance" -> validate_performance(rec)
      [] name = "compliance" -> validate_compliance(rec)
      [] name = "reviews" -> validate_reviews(rec)
      [] name = "related" -> validate_related(rec)
      [] name = "geo" -> validate_geo(rec)

ClaimedOrder ==
    <<"basic", "media", "pricing", "availability", "variants", "fulfillment", "merchant",
      "returns", "reviews", "compliance", "related", "geo", "flags">>
ImportOrder ==
    <<"flags", "basic", "item_info", "media", "pricing", "availability", "variants",
      "fulfillment", "merchant", "returns", "performance", "compliance", "reviews",
      "related", "geo">>

\* the outcome is the modules' outputs joined in the given order
JoinedIn(order, out) ==
    /\ out.errors = Flatten([k \in DOMAIN order |-> validator(order[k], p).errors])
    /\ out.warnings = Flatten([k \in DOMAIN order |-> validator(order[k], p).warnings])
    /\ out.rows = Flatten([k \in DOMAIN order |-> validator(order[k], p).rows])

-----------------------------------------------------------------------------
(* Properties of the narrow modules, stated over SpecRules *)

\* a whole number above zero, as a number or as a numeral
IsPositiveInteger(v) ==
    \/ v.t = "num" /\ v.n > 0
    \/ v.t = "str" /\ isdigit(v.s) /\ DigitsVal(v.s) > 0

\* return_window is given and is no positive integer
ReturnWindowMalformed(rec) ==
    /\ ~InNoneEmpty(dict_get(rec, "return_window"))
    /\ ~IsPositiveInteger(dict_get(rec, "return_window"))

\* C21: for every record the fulfillment, merchant, reviews, compliance,
\* related and geo modules give no error, and the returns module gives an
\* error exactly when return_window is given and is no positive integer
\* (zero, negative or no number, as a number or as a string).
C21_SeverityTiers ==
    modular.done =>
        /\ validate_fulfillment(p).errors = <<>>
        /\ validate_merchant(p).errors = <<>>
        /\ validate_reviews(p).errors = <<>>
        /\ validate_compliance(p).errors = <<>>
        /\ validate_related(p).errors = <<>>
        /\ validate_geo(p).errors = <<>>
        /\ validate_returns(p).errors # <<>> <=> ReturnWindowMalformed(p)

====
